---- MODULE Spec2Model ----
(***************************************************************************)
(* The notes list-state hook (useNotes) of magic_notes, together with the  *)
(* REST server it talks to.  The hook owns the cached note list, the tag   *)
(* list, the filters, the pagination cursor, the loading flag and the      *)
(* single error value; every network call is a request that is sent, is    *)
(* handled by the server at some later moment and is resolved at the       *)
(* client at a still later moment, in any order relative to the others.    *)
(*                                                                         *)
(* Strings are sequences of one-character strings.  Timestamps are         *)
(* abstracted to who stamped them: "cli" (new Date() in the hook) or "srv" *)
(* (the server's clock).                                                   *)
(***************************************************************************)
EXTENDS Integers, Sequences, FiniteSets, TLC

VARIABLES
    notes,        \* useState<Note[]>            the cached note list
    tags,         \* useState<Tag[]>             the cached tag list
    filters,      \* useState<NoteFilters>
    isLoading,    \* useState<boolean>
    error,        \* useState<string | null>
    currentPage,  \* useState<number>
    pageSize,     \* useState<number>
    inflight,     \* the requests issued and not yet resolved, in issue order
    now,          \* the client clock, in milliseconds past Epoch
    db,           \* the server's note store
    dbTags,       \* the server's tag store
    nextNoteId,   \* the server's id counter
    issued,       \* number of calls the view has made that issue a request
    budget,       \* the number of such calls a behaviour is explored for
    wire,         \* the HTTP requests the latest API client call has sent
    outcome,      \* what the last call of the API client returned or threw
    parseIn,      \* the tag list last given to the input schema
    parseOut,     \* the tag list the schema made of it
    noteModalOpen,     \* App: useState(false)
    editingNote,       \* App: useState<Note | null>, <<>> for null
    isSaving,          \* NoteModal: useState(false)
    errors,            \* NoteModal: the field errors of the last validation
    filterText,        \* TagModal: useState('')
    localSelectedTags, \* TagModal: useState<string[]>
    isCreating,        \* TagModal: useState(false)
    creating,          \* the filterText the pending handleCreateAndSelect closed over
    last          \* the last step the hook took, and the request it resolved

vars == <<notes, tags, filters, isLoading, error, currentPage, pageSize,
          inflight, now, db, dbTags, nextNoteId, issued, budget, wire, outcome,
          parseIn, parseOut, noteModalOpen, editingNote, isSaving, errors,
          filterText, localSelectedTags, isCreating, creating, last>>

hookVars == <<notes, tags, filters, isLoading, error, currentPage, pageSize>>
serverVars == <<db, dbTags, nextNoteId>>
schemaVars == <<parseIn, parseOut>>
noteModalVars == <<noteModalOpen, editingNote, isSaving, errors>>
tagModalVars == <<filterText, localSelectedTags, isCreating, creating>>
viewVars == <<noteModalVars, tagModalVars>>
callVars == <<wire, outcome, schemaVars>>
clientVars == <<callVars, viewVars>>

----------------------------------------------------------------------------
(* Bounds of the model. *)

MaxRequests == 1     \* calls by the view that issue a request
MaxOverlap == 2      \* the same, where the calls are to overlap each other
MaxPageSize == 1     \* page sizes 1..MaxPageSize are offered
MaxPageInput == 2    \* setCurrentPage is called with 0..MaxPageInput
MaxNotes == 20       \* notes of a loaded list, where only the cursor moves

(* Date.now() is milliseconds since 1970: far above any id the server's    *)
(* counter hands out.  Epoch stands for the value of Date.now() when the   *)
(* hook is mounted.                                                        *)
Epoch == 100

(* useState(() => loadPageSize() ?? 9) *)
DefaultPageSize == 9

(* The limits of NoteInSchema and TagInSchema *)
TitleMax == 200
ContentMax == 10000
TagNameMax == 50

PageSizes == (1..MaxPageSize) \cup {DefaultPageSize}

Null == "null"

----------------------------------------------------------------------------
(* Data *)

(* A title or a content is held as its runs, each a character and how many *)
(* times it stands in a row, neighbouring runs of different characters:     *)
(* " cc " is Run(" ", 1) \o Run("c", 2) \o Run(" ", 1).  A tag name, a      *)
(* search text and a message to look into are sequences of characters.      *)
Run(c, n) == IF n = 0 THEN <<>> ELSE << [char |-> c, count |-> n] >>

(* A text of one character *)
Text(c) == Run(c, 1)

Note(id, title, content, tgs, c, u) ==
    [id |-> id, title |-> title, content |-> content, tags |-> tgs,
     created_at |-> c, updated_at |-> u]

InitialNotes ==
    << Note(1, Text("a"), Text("x"), << <<"t">>, <<"s">> >>, "srv", "srv"),
       Note(2, Text("b"), Text("y"), << <<"t">> >>, "srv", "srv") >>

InitialTags == << [id |-> 1, name |-> <<"t">>], [id |-> 2, name |-> <<"s">>] >>

DefaultFilters == [bodyText |-> <<>>, includeTitle |-> TRUE, tags |-> <<>>]

(* The filter values the view passes to setFilters. *)
FilterInputs ==
    { DefaultFilters,
      [bodyText |-> <<"X">>, includeTitle |-> FALSE, tags |-> << <<"s">> >>] }

(* The form data the view passes to createNote and updateNote. *)
NoteInputs ==
    { [title |-> Text("c"), content |-> Text("x"), tags |-> << <<"s">> >>] }

FailMessages == { "Connection error (is the server running?)" }

NotFound == "Note not found"

(* The message of the error api.createNote and api.updateNote throw for an *)
(* input that fails NoteInSchema, without the issues it goes on to list    *)
InvalidNoteData == "Invalid note data"

(* What a handler that throws answers with: status 500 and the message of  *)
(* the exception, here the ZodError of a failed parse.                      *)
Unhandled == "Unhandled Exception"

----------------------------------------------------------------------------
(* Sequence helpers *)

HasId(s, id) == \E i \in 1..Len(s) : s[i].id = id

Ids(s) == { s[i].id : i \in 1..Len(s) }

Min(a, b) == IF a < b THEN a ELSE b
Max(a, b) == IF a > b THEN a ELSE b

(* Math.ceil(n / d) for n >= 0, d >= 1 *)
CeilDiv(n, d) == (n + d - 1) \div d

(* Array.prototype.slice(start, end): a negative index counts from the end *)
SliceIndex(k, len) == IF k < 0 THEN Max(len + k, 0) ELSE Min(k, len)

Slice(s, start, end) ==
    SubSeq(s, SliceIndex(start, Len(s)) + 1, SliceIndex(end, Len(s)))

(* String.prototype.toLowerCase, one character at a time *)
LowerChar(c) ==
    CASE c = "A" -> "a" [] c = "B" -> "b" [] c = "C" -> "c"
      [] c = "S" -> "s" [] c = "T" -> "t" [] c = "X" -> "x" [] c = "Y" -> "y"
      [] c = "K" -> "k" [] c = "O" -> "o" [] c = "R" -> "r" [] c = "W" -> "w"
      [] OTHER -> c

ToLower(s) == [i \in 1..Len(s) |-> LowerChar(s[i])]

(* String.prototype.includes on sequences of characters *)
Includes(s, sub) ==
    \E k \in 0..(Len(s) - Len(sub)) : SubSeq(s, k+1, k+Len(sub)) = sub

(* Array.prototype.includes *)
Member(s, x) == \E i \in 1..Len(s) : s[i] = x

----------------------------------------------------------------------------
(* The input schemas (NoteInSchema, TagInSchema), used by the API client   *)
(* before it sends and by the server's handlers on what they receive       *)

Repeat(c, n) == [i \in 1..n |-> c]

(* String.prototype.length of a text held as runs *)
RECURSIVE TextLength(_)
TextLength(t) == IF t = <<>> THEN 0 ELSE Head(t).count + TextLength(Tail(t))

(* String.prototype.trim of a text held as runs *)
TrimText(t) ==
    LET start  == IF t # <<>> /\ t[1].char = " " THEN 2 ELSE 1
        finish == IF t # <<>> /\ t[Len(t)].char = " " THEN Len(t) - 1 ELSE Len(t)
    IN  SubSeq(t, start, finish)

(* String.prototype.trim of a text held as its characters *)
Trim(s) ==
    LET n == Len(s)
    IN  IF \A i \in 1..n : s[i] = " " THEN <<>>
        ELSE SubSeq(s, CHOOSE i \in 1..n :
                           s[i] # " " /\ \A j \in 1..(i-1) : s[j] = " ",
                       CHOOSE i \in 1..n :
                           s[i] # " " /\ \A j \in (i+1)..n : s[j] = " ")

(* The filter of the transform without its seen set: only the empty names  *)
(* are dropped                                                              *)
RECURSIVE DropEmptyOnly(_, _, _)
DropEmptyOnly(tgs, i, seen) ==
    IF i > Len(tgs) THEN <<>>
    ELSE IF tgs[i] = <<>>
         THEN DropEmptyOnly(tgs, i + 1, seen)
         ELSE <<tgs[i]>> \o DropEmptyOnly(tgs, i + 1, seen)

(* .transform(tags => tags.filter(...)) of NoteInSchema: the tags from      *)
(* index i on, without the empty ones and those already in seen             *)
RECURSIVE DropSeen(_, _, _)
DropSeen(tgs, i, seen) ==
    IF i > Len(tgs) THEN <<>>
    ELSE IF tgs[i] = <<>> \/ tgs[i] \in seen
         THEN DropSeen(tgs, i + 1, seen)
         ELSE <<tgs[i]>> \o DropSeen(tgs, i + 1, seen \cup {tgs[i]})

(* The tags field parsed without its normalization *)
TagsAsGiven(tgs) == tgs

(* z.array(z.string().trim().toLowerCase()) and the transform after it *)
NormalizeTags(tgs) ==
    DropSeen([i \in 1..Len(tgs) |-> ToLower(Trim(tgs[i]))], 1, {})

(* The issue of a z.string().trim().min(1).max(limit) field, if any *)
StringIssues(field, length, limit) ==
    IF length < 1 THEN << [path |-> field, code |-> "too_small"] >>
    ELSE IF length > limit THEN << [path |-> field, code |-> "too_big"] >>
    ELSE <<>>

(* NoteInSchema.parse *)
NoteInParse(noteData) ==
    LET title   == TrimText(noteData.title)
        content == TrimText(noteData.content)
        issues  == StringIssues("title", TextLength(title), TitleMax)
                   \o StringIssues("content", TextLength(content), ContentMax)
    IN  IF issues # <<>>
        THEN [ok |-> FALSE, issues |-> issues]
        ELSE [ok |-> TRUE,
              value |-> [title |-> title,
                         content |-> content,
                         tags |-> NormalizeTags(noteData.tags)]]

(* TagInSchema.parse *)
TagInParse(tagData) ==
    LET name   == Trim(tagData.name)
        issues == StringIssues("name", Len(name), TagNameMax)
    IN  IF issues # <<>>
        THEN [ok |-> FALSE, issues |-> issues]
        ELSE [ok |-> TRUE, value |-> [name |-> ToLower(name)]]

----------------------------------------------------------------------------
(* Derived pagination values of the hook *)

(* The page count rounded down *)
TotalPagesFloor(ns, size) == Max(1, Len(ns) \div size)

totalPagesOf(ns, size) == Max(1, CeilDiv(Len(ns), size))

totalPages == totalPagesOf(notes, pageSize)

paginatedNotesOf(ns, page, size) ==
    LET startIndex == (page - 1) * size
        endIndex == startIndex + size
    IN  Slice(ns, startIndex, endIndex)

paginatedNotes == paginatedNotesOf(notes, currentPage, pageSize)

----------------------------------------------------------------------------
(* The API client's query for a notes read, and the server's answer to it *)

(* buildQueryString drops a parameter whose value is '' , undefined or []. *)
Query(f) ==
    [body_text |-> f.bodyText,
     title_text |-> IF f.includeTitle THEN f.bodyText ELSE <<>>,
     tags |-> f.tags]

(* The characters of a text held as runs *)
RECURSIVE Expand(_)
Expand(t) ==
    IF t = <<>> THEN <<>>
    ELSE [i \in 1..Head(t).count |-> Head(t).char] \o Expand(Tail(t))

MatchesQuery(n, q) ==
    /\ (q.body_text # <<>> =>
          Includes(ToLower(Expand(n.content)), ToLower(q.body_text)))
    /\ (q.title_text # <<>> =>
          Includes(ToLower(Expand(n.title)), ToLower(q.title_text)))
    /\ (Len(q.tags) > 0 => \E i \in 1..Len(q.tags) : Member(n.tags, q.tags[i]))

(* The handler answers with the first page of 50 matches when no page is   *)
(* asked for; the stores explored here stay far below that.                *)
ServerGetNotes(store, f) ==
    LET q == Query(f)
        Keep(n) == MatchesQuery(n, q)
    IN  SelectSeq(store, Keep)

----------------------------------------------------------------------------
(* Requests.  A request is "sent" until the server handles it; its         *)
(* response ("ok" with resp, or "fail" with msg) then waits to be resolved *)
(* at the client.  A transport failure or a server fault fails a sent      *)
(* request without the server handling it.                                 *)
(*   filters  the filters closed over by refreshNotes when the call began  *)
(*   id       the note id of an update or delete; the temporary id of a    *)
(*            create                                                       *)
(*   prev     previousNotes, the list the call closed over                 *)
(*   alone    no other request was outstanding when this one was issued    *)
(*            and none has been issued since                               *)
(*   chained  a load issued by createNote after its request succeeded      *)

Request(kind, f, id, dto, prev, chained) ==
    [kind |-> kind, phase |-> "sent", sentAt |-> now, filters |-> f, id |-> id,
     dto |-> dto, prev |-> prev, resp |-> <<>>, msg |-> Null,
     alone |-> (inflight = <<>>), chained |-> chained]

NoRequest ==
    [kind |-> "none", phase |-> "none", sentAt |-> 0, filters |-> DefaultFilters,
     id |-> 0, dto |-> <<>>, prev |-> <<>>, resp |-> <<>>, msg |-> Null,
     alone |-> FALSE, chained |-> FALSE]

RemoveAt(s, i) == SubSeq(s, 1, i-1) \o SubSeq(s, i+1, Len(s))

(* Issuing a request next to the outstanding requests reqs: each of those  *)
(* stops being alone, and the new one is alone when there is none.         *)
Issue(reqs, r) ==
    Append([i \in 1..Len(reqs) |-> [reqs[i] EXCEPT !.alone = FALSE]],
           [r EXCEPT !.alone = (reqs = <<>>)])

(* refreshNotes rethrowing as the mutations do *)
RethrowsAlways(kind) == kind \in {"create", "update", "delete", "load"}

(* Whether the catch block of the call that issued a request of this kind  *)
(* rethrows (lines 124, 148, 163); refreshNotes and refreshTags swallow.   *)
Rethrows(kind) == kind \in {"create", "update", "delete"}

(* The record of a step of the hook: the operation, the request it         *)
(* resolved, whether the call it ends rejects to its caller and, for the   *)
(* steps that are written to reset, to move or to keep the page            *)
(* (setFilters, setPageSize, nextPage, prevPage, a load resolving), the    *)
(* page the step started from.                                             *)
Step(op, r) ==
    [op |-> op, req |-> r, page |-> 0, rejected |-> FALSE]

PageStep(op, r) ==
    [op |-> op, req |-> r, page |-> currentPage, rejected |-> FALSE]

Rejection(op, r, msg) ==
    [op |-> op, req |-> [r EXCEPT !.msg = msg],
     page |-> IF r.kind = "load" THEN currentPage ELSE 0,
     rejected |-> Rethrows(r.kind)]

(* A response reaches the client no earlier than one clock tick after the  *)
(* request was sent: a network round trip takes at least a millisecond.    *)
Arrived(r) == now > r.sentAt

Succeeds(i, kind) ==
    /\ i \in 1..Len(inflight)
    /\ inflight[i].kind = kind
    /\ inflight[i].phase = "ok"
    /\ Arrived(inflight[i])

(* The message of the rejection a request ends with: the server's own      *)
(* (a 404), or any transport or server fault while it is still sent.       *)
Fails(i, kind, msg) ==
    /\ i \in 1..Len(inflight)
    /\ inflight[i].kind = kind
    /\ Arrived(inflight[i])
    /\ \/ inflight[i].phase = "fail" /\ msg = inflight[i].msg
       \/ inflight[i].phase = "sent" /\ msg \in FailMessages

----------------------------------------------------------------------------
(* The state setters of each operation of the hook, as the values they     *)
(* leave in the state.                                                     *)

(* createNote, lines 104-113 *)
OptimisticNote(dto) ==
    Note(Epoch + now, dto.title, dto.content, dto.tags, "cli", "cli")

(* The new note put at the end of the list *)
AppendAtEnd(n, ns) == ns \o <<n>>

(* createNote, line 113 *)
Prepend(n, ns) == <<n>> \o ns

(* createNote, line 118 *)
ReplaceById(ns, id, n) == [i \in 1..Len(ns) |-> IF ns[i].id = id THEN n ELSE ns[i]]

(* createNote line 121, deleteNote line 154 *)
RemoveById(ns, id) ==
    LET Keep(n) == n.id # id
    IN  SelectSeq(ns, Keep)

(* updateNote, lines 130-136: the closed-over entry with the form's fields *)
MergedNote(ns, id, dto) ==
    LET old == ns[CHOOSE i \in 1..Len(ns) :
                    ns[i].id = id /\ \A j \in 1..(i-1) : ns[j].id # id]
    IN  [old EXCEPT !.title = dto.title, !.content = dto.content,
                    !.tags = dto.tags, !.updated_at = "cli"]

(* The edited entry moved to the head of the list *)
UpdateAndMoveToFront(ns, id, dto) ==
    IF HasId(ns, id)
    THEN <<MergedNote(ns, id, dto)>> \o RemoveById(ns, id)
    ELSE ns

(* updateNote, line 138.  The call is made from the latest render, so the  *)
(* list it closes over is the list the setter receives.                    *)
ApplyUpdate(ns, id, dto) ==
    IF HasId(ns, id) THEN ReplaceById(ns, id, MergedNote(ns, id, dto)) ELSE ns

(* A catch block that sets the error and leaves the list as it is *)
NoRollback(ns, r) == ns

(* An update rolled back field by field, the title only *)
RestoreTitleOnly(ns, r) ==
    [k \in 1..Len(ns) |->
        IF ns[k].id = r.id /\ HasId(r.prev, r.id)
        THEN [ns[k] EXCEPT !.title =
                 r.prev[CHOOSE j \in 1..Len(r.prev) : r.prev[j].id = r.id].title]
        ELSE ns[k]]

(* The catch block of updateNote (line 145) *)
RollbackUpdate(ns, r) == r.prev

(* A delete rolled back by putting the note back at the head of the list *)
ReinsertAtHead(ns, r) ==
    IF HasId(r.prev, r.id)
    THEN <<r.prev[CHOOSE k \in 1..Len(r.prev) : r.prev[k].id = r.id]>> \o ns
    ELSE ns

(* The catch block of deleteNote (line 160) *)
RollbackDelete(ns, r) == r.prev

(* The catch block of createNote (line 121) *)
RollbackCreate(ns, r) == RemoveById(ns, r.id)

(* A failed load that empties the list *)
ClearedList(ns, r) == <<>>

(* The catch block of refreshNotes (lines 77-79): the list is not touched *)
NotesAfterLoadFailure(ns, r) == ns

(* A response dropped when its filters are no longer the current ones *)
IgnoreSuperseded(ns, r) == IF r.filters = filters THEN r.resp ELSE ns

(* refreshNotes line 76 *)
NotesAfterLoad(ns, r) == r.resp

(* A reset that is missing *)
KeepPage(p) == p

(* The page after an operation that is written to reset it: setCurrentPage(1) *)
(* at lines 44 and 50                                                      *)
ResetPage(p) == 1

(* A load that sends the view back to the first page *)
FirstPage(p) == 1

(* The page after a successful load: refreshNotes never calls setCurrentPage *)
PageAfterLoad(p) == p

----------------------------------------------------------------------------
(* No call of the API client has been made *)
NoError == [name |-> "none", message |-> "", detail |-> <<>>, status |-> 0]

NoOutcome ==
    [call |-> "none", threw |-> FALSE, error |-> NoError, cause |-> "none",
     sent |-> FALSE, value |-> <<>>]

(* The state after the hook is mounted: the initial useState values, then  *)
(* the three mount effects (page reset, refreshNotes, refreshTags).  size  *)
(* is what useState(() => loadPageSize() ?? 9) evaluates to.               *)

Mounted(size, calls) ==
    /\ notes = <<>>
    /\ tags = <<>>
    /\ filters = DefaultFilters
    /\ isLoading = TRUE
    /\ error = Null
    /\ currentPage = 1
    /\ pageSize = size
    /\ now = 0
    /\ inflight = << [NoRequest EXCEPT !.kind = "load", !.phase = "sent"],
                     [NoRequest EXCEPT !.kind = "tags", !.phase = "sent"] >>
    /\ db = InitialNotes
    /\ dbTags = InitialTags
    /\ nextNoteId = Len(InitialNotes) + 1
    /\ issued = 0
    /\ budget = calls
    /\ wire = <<>>
    /\ outcome = NoOutcome
    /\ parseIn = <<>>
    /\ parseOut = <<>>
    /\ noteModalOpen = FALSE
    /\ editingNote = <<>>
    /\ isSaving = FALSE
    /\ errors = <<>>
    /\ filterText = <<>>
    /\ localSelectedTags = <<>>
    /\ isCreating = FALSE
    /\ creating = <<>>
    /\ last = [op |-> "mount", req |-> NoRequest, page |-> 0, rejected |-> FALSE]

(* A first visit: no page size is stored *)
Init == Mounted(DefaultPageSize, MaxRequests)

(* The same, explored for calls that overlap each other *)
InitOverlap == Mounted(DefaultPageSize, MaxOverlap)

(* A later visit: a page size is stored, or none *)
InitPaging == \E size \in PageSizes : Mounted(size, MaxRequests)

----------------------------------------------------------------------------
(* The environment: the clock and the server *)

(* Time is observed only through Date.now() and through the arrival of    *)
(* responses, so the clock is advanced only while a request waits for it.  *)
Tick ==
    /\ \E i \in 1..Len(inflight) : inflight[i].sentAt = now
    /\ now' = now + 1
    /\ UNCHANGED <<hookVars, inflight, serverVars, issued, budget, clientVars, last>>

Respond(i, phase, resp, msg) ==
    inflight' = [inflight EXCEPT ![i] = [@ EXCEPT !.phase = phase, !.resp = resp, !.msg = msg]]

(* GET /notes/ *)
ServeGetNotes(i) ==
    /\ inflight[i].kind = "load"
    /\ Respond(i, "ok", ServerGetNotes(db, inflight[i].filters), Null)
    /\ UNCHANGED serverVars

(* GET /tags/ *)
ServeGetTags(i) ==
    /\ inflight[i].kind = "tags"
    /\ Respond(i, "ok", dbTags, Null)
    /\ UNCHANGED serverVars

(* POST /notes/ *)
ServePostNote(i) ==
    /\ inflight[i].kind = "create"
    /\ LET parsed == NoteInParse(inflight[i].dto)
           validatedInput == parsed.value
           newNote == Note(nextNoteId, validatedInput.title, validatedInput.content,
                           validatedInput.tags, "srv", "srv")
       IN  IF ~parsed.ok
           THEN /\ Respond(i, "fail", <<>>, Unhandled)
                /\ UNCHANGED <<db, nextNoteId>>
           ELSE /\ db' = Append(db, newNote)
                /\ nextNoteId' = nextNoteId + 1
                /\ Respond(i, "ok", <<newNote>>, Null)
    /\ UNCHANGED dbTags

(* PUT /notes/:id *)
ServePutNote(i) ==
    /\ inflight[i].kind = "update"
    /\ LET id == inflight[i].id
           parsed == NoteInParse(inflight[i].dto)
           dto == parsed.value
       IN  IF ~parsed.ok
           THEN /\ Respond(i, "fail", <<>>, Unhandled)
                /\ UNCHANGED serverVars
           ELSE IF ~HasId(db, id)
           THEN /\ Respond(i, "fail", <<>>, NotFound)
                /\ UNCHANGED serverVars
           ELSE LET k == CHOOSE j \in 1..Len(db) : db[j].id = id
                    updatedNote == [db[k] EXCEPT !.title = dto.title,
                                                 !.content = dto.content,
                                                 !.tags = dto.tags,
                                                 !.updated_at = "srv"]
                IN  /\ db' = [db EXCEPT ![k] = updatedNote]
                    /\ Respond(i, "ok", <<updatedNote>>, Null)
                    /\ UNCHANGED <<dbTags, nextNoteId>>

(* DELETE /notes/:id *)
ServeDeleteNote(i) ==
    /\ inflight[i].kind = "delete"
    /\ LET id == inflight[i].id
       IN  IF ~HasId(db, id)
           THEN /\ Respond(i, "fail", <<>>, NotFound)
                /\ UNCHANGED serverVars
           ELSE /\ db' = RemoveById(db, id)
                /\ Respond(i, "ok", <<>>, Null)
                /\ UNCHANGED <<dbTags, nextNoteId>>

ServerHandle(i) ==
    /\ inflight[i].phase = "sent"
    /\ \/ ServeGetNotes(i)
       \/ ServeGetTags(i)
       \/ ServePostNote(i)
       \/ ServePutNote(i)
       \/ ServeDeleteNote(i)
    /\ UNCHANGED <<hookVars, now, issued, budget, clientVars, last>>

----------------------------------------------------------------------------
(* The hook's operations *)

CanIssue == issued < budget

(* refreshNotes up to its await (lines 72-75), for the filters f it closed *)
(* over: the values it leaves in isLoading, error and inflight.            *)
BeginLoad(reqs, f, chained) ==
    /\ isLoading' = TRUE
    /\ error' = Null
    /\ inflight' = Issue(reqs, Request("load", f, 0, <<>>, notes', chained))

(* refreshNotes called by the view (the Retry button) *)
RefreshNotes ==
    /\ CanIssue
    /\ UNCHANGED <<notes, tags, filters, currentPage, pageSize>>
    /\ BeginLoad(inflight, filters, FALSE)
    /\ issued' = issued + 1 /\ UNCHANGED <<budget, clientVars>>
    /\ last' = Step("refreshNotes", NoRequest)
    /\ UNCHANGED <<now, serverVars>>

(* A filter change whose load still uses the filters of the previous render *)
SetFiltersStaleLoad(f) ==
    /\ CanIssue
    /\ filters' = f
    /\ currentPage' = ResetPage(currentPage)
    /\ UNCHANGED <<notes, tags, pageSize>>
    /\ BeginLoad(inflight, filters, FALSE)
    /\ issued' = issued + 1 /\ UNCHANGED <<budget, clientVars>>
    /\ last' = PageStep("setFilters", NoRequest)
    /\ UNCHANGED <<now, serverVars>>

(* setFilters, with the two effects that depend on filters: the page reset *)
(* (lines 43-45) and the load (lines 95-97).                               *)
SetFilters(f) ==
    /\ CanIssue
    /\ filters' = f
    /\ currentPage' = ResetPage(currentPage)
    /\ UNCHANGED <<notes, tags, pageSize>>
    /\ BeginLoad(inflight, f, FALSE)
    /\ issued' = issued + 1 /\ UNCHANGED <<budget, clientVars>>
    /\ last' = PageStep("setFilters", NoRequest)
    /\ UNCHANGED <<now, serverVars>>

(* A page-size change that leaves the page where it was *)
SetPageSizeOnly(size) ==
    /\ pageSize' = size
    /\ last' = PageStep("setPageSize", NoRequest)
    /\ UNCHANGED <<notes, tags, filters, isLoading, error, currentPage, inflight,
                   now, serverVars, issued, budget, clientVars>>

SetPageSize(size) ==
    /\ pageSize' = size
    /\ currentPage' = ResetPage(currentPage)
    /\ last' = PageStep("setPageSize", NoRequest)
    /\ UNCHANGED <<notes, tags, filters, isLoading, error, inflight, now,
                   serverVars, issued, budget, clientVars>>

SetCurrentPage(page) ==
    /\ currentPage' = page
    /\ last' = Step("setCurrentPage", NoRequest)
    /\ UNCHANGED <<notes, tags, filters, isLoading, error, pageSize, inflight,
                   now, serverVars, issued, budget, clientVars>>

(* nextPage without the clamp at the last page *)
NextPageUnclamped ==
    /\ currentPage' = currentPage + 1
    /\ last' = PageStep("nextPage", NoRequest)
    /\ UNCHANGED <<notes, tags, filters, isLoading, error, pageSize, inflight,
                   now, serverVars, issued, budget, clientVars>>

NextPage ==
    /\ currentPage' = Min(currentPage + 1, totalPages)
    /\ last' = PageStep("nextPage", NoRequest)
    /\ UNCHANGED <<notes, tags, filters, isLoading, error, pageSize, inflight,
                   now, serverVars, issued, budget, clientVars>>

PrevPage ==
    /\ currentPage' = Max(currentPage - 1, 1)
    /\ last' = PageStep("prevPage", NoRequest)
    /\ UNCHANGED <<notes, tags, filters, isLoading, error, pageSize, inflight,
                   now, serverVars, issued, budget, clientVars>>

ClearError ==
    /\ error' = Null
    /\ last' = Step("clearError", NoRequest)
    /\ UNCHANGED <<notes, tags, filters, isLoading, currentPage, pageSize,
                   inflight, now, serverVars, issued, budget, clientVars>>

(* The load resolves: lines 76 and 81 *)
LoadOk(i) ==
    /\ Succeeds(i, "load")
    /\ notes' = NotesAfterLoad(notes, inflight[i])
    /\ currentPage' = PageAfterLoad(currentPage)
    /\ isLoading' = FALSE
    /\ inflight' = RemoveAt(inflight, i)
    /\ last' = PageStep("loadOk", inflight[i])
    /\ UNCHANGED <<tags, filters, error, pageSize, now, serverVars, issued, budget, clientVars>>

(* A rejection that leaves isLoading as it is: refreshNotes without its     *)
(* finally block                                                            *)
LoadFailStillLoading(i, msg) ==
    /\ Fails(i, "load", msg)
    /\ notes' = NotesAfterLoadFailure(notes, inflight[i])
    /\ error' = msg
    /\ inflight' = RemoveAt(inflight, i)
    /\ last' = Rejection("loadFail", inflight[i], msg)
    /\ UNCHANGED <<tags, filters, isLoading, currentPage, pageSize, now, serverVars, issued, budget, clientVars>>

(* The load rejects: lines 77-81 *)
LoadFail(i, msg) ==
    /\ Fails(i, "load", msg)
    /\ notes' = NotesAfterLoadFailure(notes, inflight[i])
    /\ error' = msg
    /\ isLoading' = FALSE
    /\ inflight' = RemoveAt(inflight, i)
    /\ last' = Rejection("loadFail", inflight[i], msg)
    /\ UNCHANGED <<tags, filters, currentPage, pageSize, now, serverVars, issued, budget, clientVars>>

(* refreshTags resolves: line 88 *)
TagsOk(i) ==
    /\ Succeeds(i, "tags")
    /\ tags' = inflight[i].resp
    /\ inflight' = RemoveAt(inflight, i)
    /\ last' = Step("tagsOk", inflight[i])
    /\ UNCHANGED <<notes, filters, isLoading, error, currentPage, pageSize,
                   now, serverVars, issued, budget, clientVars>>

(* refreshTags rejects: lines 89-91 *)
TagsFail(i, msg) ==
    /\ Fails(i, "tags", msg)
    /\ error' = msg
    /\ inflight' = RemoveAt(inflight, i)
    /\ last' = Rejection("tagsFail", inflight[i], msg)
    /\ UNCHANGED <<notes, tags, filters, isLoading, currentPage, pageSize,
                   now, serverVars, issued, budget, clientVars>>

(* createNote up to its await: lines 104-117 *)
CreateNoteCall(dto) ==
    /\ CanIssue
    /\ LET optimisticNote == OptimisticNote(dto)
       IN  /\ notes' = Prepend(optimisticNote, notes)
           /\ inflight' = Issue(inflight,
                  Request("create", filters, optimisticNote.id, dto, notes, FALSE))
    /\ error' = Null
    /\ issued' = issued + 1 /\ UNCHANGED <<budget, callVars>>
    /\ last' = Step("createNote", NoRequest)
    /\ UNCHANGED <<tags, filters, isLoading, currentPage, pageSize, now, serverVars>>

(* The same called with the note modal left as it is *)
CreateNote(dto) ==
    /\ CreateNoteCall(dto)
    /\ UNCHANGED viewVars

(* The create resolves: line 118, then refreshNotes (line 119) up to its   *)
(* await, with the filters createNote closed over.                         *)
CreateOk(i) ==
    /\ Succeeds(i, "create")
    /\ notes' = ReplaceById(notes, inflight[i].id, inflight[i].resp[1])
    /\ BeginLoad(RemoveAt(inflight, i), inflight[i].filters, TRUE)
    /\ last' = Step("createOk", inflight[i])
    /\ UNCHANGED <<tags, filters, currentPage, pageSize, now, serverVars, issued, budget, clientVars>>

(* The create rejects: lines 120-124 *)
CreateFail(i, msg) ==
    /\ Fails(i, "create", msg)
    /\ notes' = RollbackCreate(notes, inflight[i])
    /\ error' = msg
    /\ inflight' = RemoveAt(inflight, i)
    /\ last' = Rejection("createFail", inflight[i], msg)
    /\ UNCHANGED <<tags, filters, isLoading, currentPage, pageSize, now,
                   serverVars, issued, budget, clientVars>>

(* updateNote without its setError(null) *)
UpdateNoteKeepError(id, dto) ==
    /\ CanIssue
    /\ notes' = ApplyUpdate(notes, id, dto)
    /\ inflight' = Issue(inflight, Request("update", filters, id, dto, notes, FALSE))
    /\ issued' = issued + 1 /\ UNCHANGED <<budget, clientVars>>
    /\ last' = Step("updateNote", NoRequest)
    /\ UNCHANGED <<tags, filters, isLoading, error, currentPage, pageSize, now,
                   serverVars>>

(* updateNote up to its await: lines 129-142 *)
UpdateNoteCall(id, dto) ==
    /\ CanIssue
    /\ notes' = ApplyUpdate(notes, id, dto)
    /\ error' = Null
    /\ inflight' = Issue(inflight, Request("update", filters, id, dto, notes, FALSE))
    /\ issued' = issued + 1 /\ UNCHANGED <<budget, callVars>>
    /\ last' = Step("updateNote", NoRequest)
    /\ UNCHANGED <<tags, filters, isLoading, currentPage, pageSize, now,
                   serverVars>>

(* The same called with the note modal left as it is *)
UpdateNote(id, dto) ==
    /\ UpdateNoteCall(id, dto)
    /\ UNCHANGED viewVars

(* The update resolves: line 143 *)
UpdateOk(i) ==
    /\ Succeeds(i, "update")
    /\ notes' = ReplaceById(notes, inflight[i].id, inflight[i].resp[1])
    /\ inflight' = RemoveAt(inflight, i)
    /\ last' = Step("updateOk", inflight[i])
    /\ UNCHANGED <<tags, filters, isLoading, error, currentPage, pageSize, now,
                   serverVars, issued, budget, clientVars>>

(* The update rejects: lines 144-148 *)
UpdateFail(i, msg) ==
    /\ Fails(i, "update", msg)
    /\ notes' = RollbackUpdate(notes, inflight[i])
    /\ error' = msg
    /\ inflight' = RemoveAt(inflight, i)
    /\ last' = Rejection("updateFail", inflight[i], msg)
    /\ UNCHANGED <<tags, filters, isLoading, currentPage, pageSize, now,
                   serverVars, issued, budget, clientVars>>

(* deleteNote up to its await: lines 153-158 *)
DeleteNote(id) ==
    /\ CanIssue
    /\ notes' = RemoveById(notes, id)
    /\ error' = Null
    /\ inflight' = Issue(inflight, Request("delete", filters, id, <<>>, notes, FALSE))
    /\ issued' = issued + 1 /\ UNCHANGED <<budget, clientVars>>
    /\ last' = Step("deleteNote", NoRequest)
    /\ UNCHANGED <<tags, filters, isLoading, currentPage, pageSize, now,
                   serverVars>>

(* A delete that refreshes after it resolves, as createNote does *)
DeleteOkThenRefresh(i) ==
    /\ Succeeds(i, "delete")
    /\ UNCHANGED <<notes, tags, filters, currentPage, pageSize, now, serverVars, issued, budget, clientVars>>
    /\ BeginLoad(RemoveAt(inflight, i), inflight[i].filters, TRUE)
    /\ last' = Step("deleteOk", inflight[i])

(* The delete resolves: nothing follows the await *)
DeleteOk(i) ==
    /\ Succeeds(i, "delete")
    /\ inflight' = RemoveAt(inflight, i)
    /\ last' = Step("deleteOk", inflight[i])
    /\ UNCHANGED <<hookVars, now, serverVars, issued, budget, clientVars>>

(* The delete rejects: lines 159-163 *)
DeleteFail(i, msg) ==
    /\ Fails(i, "delete", msg)
    /\ notes' = RollbackDelete(notes, inflight[i])
    /\ error' = msg
    /\ inflight' = RemoveAt(inflight, i)
    /\ last' = Rejection("deleteFail", inflight[i], msg)
    /\ UNCHANGED <<tags, filters, isLoading, currentPage, pageSize, now,
                   serverVars, issued, budget, clientVars>>

----------------------------------------------------------------------------

Slots == 1..Len(inflight)

AllMessages == FailMessages \cup {NotFound}

(* The ids the view can name: those of the cached entries it displays.     *)
IdInputs == Ids(notes)

(* The clock and the server *)
Environment ==
    \/ Tick
    \/ \E i \in Slots : ServerHandle(i)

(* Reads: the loads the view asks for, and what resolves at the client *)
Reads ==
    \/ RefreshNotes
    \/ ClearError
    \/ \E i \in Slots : LoadOk(i)
    \/ \E i \in Slots, msg \in AllMessages : LoadFail(i, msg)
    \/ \E i \in Slots : TagsOk(i)
    \/ \E i \in Slots, msg \in AllMessages : TagsFail(i, msg)

(* Optimistic mutations *)
Mutations ==
    \/ \E dto \in NoteInputs : CreateNote(dto)
    \/ \E id \in IdInputs, dto \in NoteInputs : UpdateNote(id, dto)
    \/ \E id \in IdInputs : DeleteNote(id)
    \/ \E i \in Slots : CreateOk(i)
    \/ \E i \in Slots, msg \in AllMessages : CreateFail(i, msg)
    \/ \E i \in Slots : UpdateOk(i)
    \/ \E i \in Slots, msg \in AllMessages : UpdateFail(i, msg)
    \/ \E i \in Slots : DeleteOk(i)
    \/ \E i \in Slots, msg \in AllMessages : DeleteFail(i, msg)

(* Filters and the pagination cursor *)
Paging ==
    \/ \E f \in FilterInputs : SetFilters(f)
    \/ \E size \in PageSizes : SetPageSize(size)
    \/ \E page \in 0..MaxPageInput : SetCurrentPage(page)
    \/ NextPage
    \/ PrevPage

(* The hook with its reads and mutations, the page left where the mount    *)
(* put it.                                                                 *)
Next == Environment \/ Reads \/ Mutations

Spec == Init /\ [][Next]_vars

(* The hook with its reads, its filters and its pagination cursor, and no  *)
(* mutation.                                                               *)
NextPaging == Environment \/ Reads \/ Paging

SpecPaging == InitPaging /\ [][NextPaging]_vars

(* The hook with its reads and mutations, for calls made while earlier     *)
(* calls are still outstanding.                                            *)
SpecOverlap == InitOverlap /\ [][Next]_vars

----------------------------------------------------------------------------
(* The hook at rest over a loaded list: the mount's requests have resolved, *)
(* the server holds n notes and the cache holds the same n notes.  Only the *)
(* pagination cursor and the page size move.                                *)

Seed(n) == [k \in 1..n |-> Note(k, Text("a"), Text("x"), <<>>, "srv", "srv")]

SeededSizes == 1..DefaultPageSize

Settled(n, size, calls) ==
    /\ notes = Seed(n)
    /\ tags = InitialTags
    /\ filters = DefaultFilters
    /\ isLoading = FALSE
    /\ error = Null
    /\ currentPage = 1
    /\ pageSize = size
    /\ now = 1
    /\ inflight = <<>>
    /\ db = Seed(n)
    /\ dbTags = InitialTags
    /\ nextNoteId = n + 1
    /\ issued = 0
    /\ budget = calls
    /\ wire = <<>>
    /\ outcome = NoOutcome
    /\ parseIn = <<>>
    /\ parseOut = <<>>
    /\ noteModalOpen = FALSE
    /\ editingNote = <<>>
    /\ isSaving = FALSE
    /\ errors = <<>>
    /\ filterText = <<>>
    /\ localSelectedTags = <<>>
    /\ isCreating = FALSE
    /\ creating = <<>>
    /\ last = [op |-> "loaded", req |-> NoRequest, page |-> 0, rejected |-> FALSE]

(* The same with no call left to the view: only the cursor moves *)
Loaded(n, size) == Settled(n, size, 0)

InitLoaded == \E n \in 0..MaxNotes, size \in SeededSizes : Loaded(n, size)

Cursor ==
    \/ \E size \in SeededSizes : SetPageSize(size)
    \/ \E page \in 0..MaxPageInput : SetCurrentPage(page)
    \/ NextPage
    \/ PrevPage

SpecCursor == InitLoaded /\ [][Cursor]_vars

----------------------------------------------------------------------------
(* The API client (api/client.ts) called directly, as its own tests call    *)
(* it.  Each call validates its input, sends at most one HTTP request and   *)
(* returns or throws; what the network does with the request (net) is       *)
(* chosen freely.  Strings are sequences of characters.                     *)

(* The status of an error made without one (status?: number): no HTTP      *)
(* status is 0.                                                             *)
Undefined == 0

(* new APIError(message, status, data): message is the fixed text of the    *)
(* message and detail the issues formatZodError appends to it; the number   *)
(* a message ends with is the status for 'HTTP error' and the id the call   *)
(* was given for 'Failed to delete note'.                                   *)
APIError(message, detail, status) ==
    [name |-> "APIError", message |-> message, detail |-> detail, status |-> status]

(* An error of the platform, thrown on as it is *)
PlatformError(name, message) ==
    [name |-> name, message |-> message, detail |-> <<>>, status |-> Undefined]

ConnectionMessage == "Connection error (is the server running?)"

Fetch == <<"f", "e", "t", "c", "h">>

(* The message of the TypeError a failed fetch rejects with is the          *)
(* platform's: "Failed to fetch" in Chromium, "Load failed" in WebKit.      *)
FetchFailureMessages == {"Failed to fetch", "Load failed"}

(* The characters of such a message *)
Characters(message) ==
    IF message = "Failed to fetch"
    THEN <<"F", "a", "i", "l", "e", "d", " ", "t", "o", " ">> \o Fetch
    ELSE <<"L", "o", "a", "d", " ", "f", "a", "i", "l", "e", "d">>

Statuses == {200, 201, 404, 500}

(* What response.json() yields: a value of the expected schema, some other  *)
(* JSON value, an object with a message field, or a rejection.              *)
Bodies == {"conforming", "other", "message", "not-json"}

Nets ==
    { [kind |-> "reject", message |-> m, status |-> 0, body |-> "none"] :
          m \in FetchFailureMessages }
    \cup { [kind |-> "response", message |-> IF b = "message" THEN NotFound ELSE "",
            status |-> st, body |-> b] :
          st \in Statuses, b \in Bodies }

(* response.ok *)
ResponseOk(status) == status \in 200..299

Returned(call) ==
    [call |-> call, threw |-> FALSE, error |-> NoError, cause |-> "none", sent |-> TRUE,
     value |-> <<>>]

Thrown(call, err, cause, sent) ==
    [call |-> call, threw |-> TRUE, error |-> err, cause |-> cause, sent |-> sent,
     value |-> <<>>]

(* errorData.message || fallback, with errorData = await                    *)
(* response.json().catch(() => ({}))                                        *)
ErrorMessage(net, fallback) ==
    IF net.body = "message" THEN net.message ELSE fallback

(* handleResponse(response, schema) *)
HandleResponse(call, net) ==
    IF ~ResponseOk(net.status)
    THEN Thrown(call, APIError(ErrorMessage(net, "HTTP error"), <<>>, net.status),
                "http", TRUE)
    ELSE IF net.body = "not-json"
    THEN Thrown(call, PlatformError("SyntaxError", "Unexpected token"), "not-json", TRUE)
    ELSE IF net.body # "conforming"
    THEN Thrown(call, APIError("API response validation failed", <<>>, net.status),
                "schema", TRUE)
    ELSE Returned(call)

(* The catch block of the calls: a TypeError whose message includes 'fetch' *)
(* becomes the connection error, anything else is thrown on.                *)
FetchRejected(call, net) ==
    IF Includes(Characters(net.message), Fetch)
    THEN Thrown(call, APIError(ConnectionMessage, <<>>, Undefined), "transport", TRUE)
    ELSE Thrown(call, PlatformError("TypeError", net.message), "transport", TRUE)

(* await fetch(...) and what follows it *)
AfterFetch(call, net) ==
    IF net.kind = "reject" THEN FetchRejected(call, net) ELSE HandleResponse(call, net)

(* The body of deleteNote's try block after a response *)
AfterDelete(id, net) ==
    IF net.kind = "reject" THEN FetchRejected("deleteNote", net)
    ELSE IF ~ResponseOk(net.status)
    THEN Thrown("deleteNote",
                APIError(ErrorMessage(net, "Failed to delete note"), <<>>, net.status),
                "http", TRUE)
    ELSE Returned("deleteNote")

(* buildQueryString: the parameters in order, without those whose value is  *)
(* undefined, '' or []; an array gives one pair per element.                *)
RECURSIVE BuildQueryString(_)
BuildQueryString(params) ==
    IF params = <<>> THEN <<>>
    ELSE LET p == Head(params)
             rest == BuildQueryString(Tail(params))
         IN  IF p.kind = "undefined" \/ p.value = <<>> THEN rest
             ELSE IF p.kind = "array"
             THEN [i \in 1..Len(p.value) |-> <<p.key, p.value[i]>>] \o rest
             ELSE <<<<p.key, p.value>>>> \o rest

(* getNotes sending title_text whatever includeTitle is *)
NotesQueryTitleAlways(f) ==
    BuildQueryString(<<
        [key |-> "body_text", kind |-> "string", value |-> f.bodyText],
        [key |-> "title_text", kind |-> "string", value |-> f.bodyText],
        [key |-> "tags", kind |-> "array", value |-> f.tags],
        [key |-> "page", kind |-> "string", value |-> <<"1">>],
        [key |-> "page_size", kind |-> "string", value |-> <<"5", "0">>] >>)

(* getNotes(filters) with its default page = 1 and pageSize = 50 *)
NotesQuery(f) ==
    BuildQueryString(<<
        [key |-> "body_text", kind |-> "string", value |-> f.bodyText],
        [key |-> "title_text",
         kind |-> IF f.includeTitle THEN "string" ELSE "undefined",
         value |-> IF f.includeTitle THEN f.bodyText ELSE <<>>],
        [key |-> "tags", kind |-> "array", value |-> f.tags],
        [key |-> "page", kind |-> "string", value |-> <<"1">>],
        [key |-> "page_size", kind |-> "string", value |-> <<"5", "0">>] >>)

HttpRequest(method, path, id, query, body) ==
    [method |-> method, path |-> path, id |-> id, query |-> query,
     body |-> body]

clientFrame == <<hookVars, inflight, now, serverVars, issued, budget, last,
                 schemaVars, viewVars>>

ApiGetNotes(f) ==
    /\ wire' = << HttpRequest("GET", "/notes/", 0, NotesQuery(f), <<>>) >>
    /\ \E net \in Nets : outcome' = AfterFetch("getNotes", net)
    /\ UNCHANGED clientFrame

(* createNote with the request built from the input as given and sent       *)
(* before the input is validated                                            *)
ApiCreateNoteSendsFirst(noteData) ==
    /\ wire' = << HttpRequest("POST", "/notes/", 0, <<>>, <<noteData>>) >>
    /\ LET parsed == NoteInParse(noteData)
       IN  IF ~parsed.ok
           THEN outcome' = Thrown("createNote",
                       APIError("Invalid note data", parsed.issues, Undefined),
                       "input", TRUE)
           ELSE \E net \in Nets : outcome' = AfterFetch("createNote", net)
    /\ UNCHANGED clientFrame

ApiCreateNote(noteData) ==
    /\ LET parsed == NoteInParse(noteData)
       IN  IF ~parsed.ok
           THEN /\ outcome' = Thrown("createNote",
                       APIError("Invalid note data", parsed.issues, Undefined),
                       "input", FALSE)
                /\ wire' = <<>>
           ELSE /\ wire' = << HttpRequest("POST", "/notes/", 0, <<>>, <<parsed.value>>) >>
                /\ \E net \in Nets : outcome' = AfterFetch("createNote", net)
    /\ UNCHANGED clientFrame

ApiUpdateNote(id, noteData) ==
    /\ LET parsed == NoteInParse(noteData)
       IN  IF ~parsed.ok
           THEN /\ outcome' = Thrown("updateNote",
                       APIError("Invalid note data", parsed.issues, Undefined),
                       "input", FALSE)
                /\ wire' = <<>>
           ELSE /\ wire' = << HttpRequest("PUT", "/notes/:id", id, <<>>, <<parsed.value>>) >>
                /\ \E net \in Nets : outcome' = AfterFetch("updateNote", net)
    /\ UNCHANGED clientFrame

ApiDeleteNote(id) ==
    /\ wire' = << HttpRequest("DELETE", "/notes/:id", id, <<>>, <<>>) >>
    /\ \E net \in Nets : outcome' = AfterDelete(id, net)
    /\ UNCHANGED clientFrame

ApiGetTags ==
    /\ wire' = << HttpRequest("GET", "/tags/", 0, <<>>, <<>>) >>
    /\ \E net \in Nets : outcome' = AfterFetch("getTags", net)
    /\ UNCHANGED clientFrame

ApiCreateTag(tagData) ==
    /\ LET parsed == TagInParse(tagData)
       IN  IF ~parsed.ok
           THEN /\ outcome' = Thrown("createTag",
                       APIError("Invalid tag data", parsed.issues, Undefined),
                       "input", FALSE)
                /\ wire' = <<>>
           ELSE /\ wire' = << HttpRequest("POST", "/tags/", 0, <<>>, <<parsed.value>>) >>
                /\ \E net \in Nets : outcome' = AfterFetch("createTag", net)
    /\ UNCHANGED clientFrame

(* The inputs the calls are explored for: valid, with blanks and tags to    *)
(* normalise; empty; blank; at the limit with blanks around; one past it.   *)
ValidNoteData ==
    [title |-> Run(" ", 1) \o Run("c", 1) \o Run(" ", 2),
     content |-> Run("x", 1) \o Run(" ", 1) \o Run("x", 1),
     tags |-> << <<"A">>, <<"a", " ">>, <<" ", "A">>, <<" ">>, <<"s">> >>]

TitleInputs ==
    { ValidNoteData.title, <<>>, Run(" ", 2),
      Run(" ", 1) \o Run("c", TitleMax) \o Run(" ", 1),
      Run("c", TitleMax + 1) }

ContentInputs ==
    { ValidNoteData.content, <<>>, Run(" ", 1),
      Run("x", ContentMax) \o Run(" ", 1),
      Run("x", ContentMax + 1) }

(* Each title with the valid content, each content with the valid title,   *)
(* both fields empty, and no tags                                           *)
NoteDataInputs ==
    { [ValidNoteData EXCEPT !.title = t] : t \in TitleInputs }
    \cup { [ValidNoteData EXCEPT !.content = c] : c \in ContentInputs }
    \cup { [ValidNoteData EXCEPT !.title = <<>>, !.content = <<>>],
           [ValidNoteData EXCEPT !.tags = <<>>] }

TagDataInputs ==
    [name : { <<" ", "A", " ">>, <<>>, <<" ">>,
              Repeat("a", TagNameMax), Repeat("a", TagNameMax + 1) }]

NoteIdInputs == {1}

(* The filter states getNotes is called with: a search text or none, the   *)
(* title toggle on or off, no tag, one tag, two tags in either order.       *)
QueryFilterInputs ==
    [bodyText : { <<>>, <<"X">> },
     includeTitle : BOOLEAN,
     tags : { <<>>, << <<"s">> >>, << <<"s">>, <<"t">> >>, << <<"t">>, <<"s">> >> }]

InitClient == Loaded(0, DefaultPageSize)

NextClient ==
    \/ \E f \in QueryFilterInputs : ApiGetNotes(f)
    \/ \E noteData \in NoteDataInputs : ApiCreateNote(noteData)
    \/ \E id \in NoteIdInputs, noteData \in NoteDataInputs : ApiUpdateNote(id, noteData)
    \/ \E id \in NoteIdInputs : ApiDeleteNote(id)
    \/ ApiGetTags
    \/ \E tagData \in TagDataInputs : ApiCreateTag(tagData)

SpecClient == InitClient /\ [][NextClient]_vars

----------------------------------------------------------------------------
(* The tags field of NoteInSchema on its own: a list of names is parsed,   *)
(* and what came out may be parsed again (a note read back and saved).      *)

MaxTagList == 3      \* names in a list given to the schema

TagNameInputs ==
    { <<" ", "W", "o", "r", "k", " ">>, <<"w", "o", "r", "k">>,
      <<"W", "O", "R", "K">>, <<" ">>, <<"A">> }

RECURSIVE ListsUpTo(_)
ListsUpTo(n) ==
    IF n = 0 THEN { <<>> }
    ELSE ListsUpTo(n - 1)
         \cup { Append(l, name) : l \in { m \in ListsUpTo(n - 1) : Len(m) = n - 1 },
                                  name \in TagNameInputs }

TagListInputs == ListsUpTo(MaxTagList)

ParseTags(tgs) ==
    /\ parseIn' = tgs
    /\ parseOut' = NormalizeTags(tgs)
    /\ UNCHANGED <<hookVars, inflight, now, serverVars, issued, budget, last,
                   wire, outcome, viewVars>>

ParseAgain ==
    /\ parseOut # parseIn
    /\ ParseTags(parseOut)

NextSchema ==
    \/ \E tgs \in TagListInputs : ParseTags(tgs)
    \/ ParseAgain

SpecSchema == InitClient /\ [][NextSchema]_vars

----------------------------------------------------------------------------
(* Tags from the form to the server's tag store: createTag of the API       *)
(* client and the POST /tags/ handler.                                      *)

TagExists == "Tag already exists"

(* nextTagId: the counter starts one past the initial tags and no handler   *)
(* removes a tag, so it is always one past the number of tags.              *)
nextTagId == Len(dbTags) + 1

(* The response of the POST /tags/ handler to a body, and the store after   *)
ServePostTag(body) ==
    LET parsed == TagInParse(body)
        validatedInput == parsed.value
        existing == { k \in 1..Len(dbTags) :
                        ToLower(dbTags[k].name) = ToLower(validatedInput.name) }
        newTag == [id |-> nextTagId, name |-> validatedInput.name]
    IN  IF ~parsed.ok
        THEN [net |-> [kind |-> "response", message |-> Unhandled, status |-> 500,
                       body |-> "message"],
              tag |-> <<>>, store |-> dbTags]
        ELSE IF existing # {}
        THEN [net |-> [kind |-> "response", message |-> TagExists, status |-> 400,
                       body |-> "message"],
              tag |-> <<>>, store |-> dbTags]
        ELSE [net |-> [kind |-> "response", message |-> "", status |-> 201,
                       body |-> "conforming"],
              tag |-> <<newTag>>, store |-> Append(dbTags, newTag)]

(* createTag of the API client against that handler *)
PostTagCall(tagData) ==
    LET parsed == TagInParse(tagData)
        served == ServePostTag(parsed.value)
        result == AfterFetch("createTag", served.net)
    IN  /\ IF ~parsed.ok
           THEN /\ outcome' = Thrown("createTag",
                        APIError("Invalid tag data", parsed.issues, Undefined),
                        "input", FALSE)
                /\ wire' = <<>>
                /\ dbTags' = dbTags
           ELSE /\ wire' = << HttpRequest("POST", "/tags/", 0, <<>>, <<parsed.value>>) >>
                /\ outcome' = IF result.threw THEN result
                              ELSE [result EXCEPT !.value = served.tag]
                /\ dbTags' = served.store

(* The same called on its own *)
PostTag(tagData) ==
    /\ PostTagCall(tagData)
    /\ UNCHANGED <<hookVars, inflight, now, db, nextNoteId, issued, budget,
                   last, schemaVars, viewVars>>

(* The names typed for a new tag: those of the two initial tags as they    *)
(* are and in other case and spacing, new names, a blank one.               *)
TagPostInputs ==
    [name : { <<"t">>, <<" ", "T", " ">>, <<"S">>, <<"a">>, <<"A", " ">>,
              <<"b">>, <<"c">>, <<"x">>, <<" ">> }]

NextTagStore == \E tagData \in TagPostInputs : PostTag(tagData)

SpecTagStore == InitClient /\ [][NextTagStore]_vars

----------------------------------------------------------------------------
(* The tag modal (components/TagModal.tsx), open over the cached tags:      *)
(* the text typed into its filter, the create option, and the create        *)
(* itself, which is handleCreateTag of App.tsx: createTag of the API client *)
(* and then refreshTags of the hook.                                        *)

(* The texts typed: the names of the two initial tags as they are, in       *)
(* upper case and with a space before or after, new names, blanks           *)
TypedTexts ==
    { <<>>, <<" ">>, <<"t">>, <<"T">>, <<" ", "t">>, <<"s", " ">>,
      <<"a">>, <<"A", " ">>, <<"b">> }

(* lines 39-41 *)
exactMatch ==
    \E k \in 1..Len(tags) : ToLower(tags[k].name) = ToLower(filterText)

(* line 43 *)
canCreateNew == Trim(filterText) # <<>> /\ ~exactMatch

(* onChange of the filter input *)
SetFilterText(text) ==
    /\ filterText' = text
    /\ UNCHANGED <<hookVars, inflight, now, serverVars, issued, budget, last,
                   callVars, noteModalVars, localSelectedTags, isCreating,
                   creating>>

(* handleCreateAndSelect up to its await (lines 54-59); the button is       *)
(* rendered when canCreateNew and disabled while isCreating                 *)
HandleCreateAndSelect ==
    /\ canCreateNew
    /\ ~isCreating
    /\ isCreating' = TRUE
    /\ creating' = filterText
    /\ UNCHANGED <<hookVars, inflight, now, serverVars, issued, budget, last,
                   callVars, noteModalVars, filterText, localSelectedTags>>

(* onCreateTag settles and handleCreateAndSelect ends (lines 59-66):        *)
(* createTag throws and the catch logs it, or it returns, refreshTags       *)
(* loads the tags or records its failure, and the new name is selected.     *)
CreateTagSettles ==
    /\ isCreating
    /\ PostTagCall([name |-> Trim(creating)])
    /\ IF outcome'.threw
       THEN UNCHANGED <<tags, error, filterText, localSelectedTags>>
       ELSE /\ \/ tags' = dbTags' /\ error' = error
               \/ \E msg \in FailMessages : error' = msg /\ tags' = tags
            /\ localSelectedTags' = Append(localSelectedTags, Trim(creating))
            /\ filterText' = <<>>
    /\ isCreating' = FALSE
    /\ creating' = <<>>
    /\ UNCHANGED <<notes, filters, isLoading, currentPage, pageSize, inflight,
                   now, db, nextNoteId, issued, budget, last, schemaVars,
                   noteModalVars>>

NextTagModal ==
    \/ \E text \in TypedTexts : SetFilterText(text)
    \/ HandleCreateAndSelect
    \/ CreateTagSettles

SpecTagModal == InitClient /\ [][NextTagModal]_vars

----------------------------------------------------------------------------
(* A create from the form to the cache: the hook's createNote calling the   *)
(* validating createNote of the API client, the server's handler, and the   *)
(* hook again when the response and the load after it arrive.               *)

(* createNote of the hook up to its await (lines 104-117), api.createNote   *)
(* being that of client.ts: the input is parsed and what is sent is the     *)
(* parsed value; an input that fails the schema is never sent, the promise  *)
(* rejects and the catch block (lines 120-124) runs before anything else.   *)
CreateNoteValidated(noteData) ==
    /\ CanIssue
    /\ LET optimisticNote == OptimisticNote(noteData)
           parsed == NoteInParse(noteData)
           request == Request("create", filters, optimisticNote.id,
                              IF parsed.ok THEN parsed.value ELSE noteData,
                              notes, FALSE)
       IN  IF parsed.ok
           THEN /\ notes' = Prepend(optimisticNote, notes)
                /\ inflight' = Issue(inflight, request)
                /\ wire' = << HttpRequest("POST", "/notes/", 0, <<>>, <<parsed.value>>) >>
                /\ error' = Null
                /\ last' = Step("createNote", NoRequest)
           ELSE /\ notes' = RollbackCreate(Prepend(optimisticNote, notes), request)
                /\ inflight' = inflight
                /\ wire' = <<>>
                /\ error' = InvalidNoteData
                /\ last' = Rejection("createFail", request, InvalidNoteData)
    /\ issued' = issued + 1
    /\ UNCHANGED <<tags, filters, isLoading, currentPage, pageSize, now,
                   serverVars, budget, outcome, schemaVars, viewVars>>

(* The form data of a create: a title as it is sent, one to trim and a     *)
(* blank one, with tags that are variants of one name, tags to drop and to  *)
(* lowercase, normalized tags and none.                                     *)
RoundTripInputs ==
    [title : { Text("c"), Run(" ", 1) \o Run("c", 1), Run(" ", 1) },
     content : { Text("x") },
     tags : { << <<"A">>, <<"a", " ">>, <<" ", "A">> >>,
              << <<" ">>, <<"S">>, <<"t">> >>,
              << <<"s">> >>,
              <<>> }]

RoundTrip ==
    \/ \E noteData \in RoundTripInputs : CreateNoteValidated(noteData)
    \/ \E i \in Slots : CreateOk(i)
    \/ \E i \in Slots, msg \in AllMessages : CreateFail(i, msg)

(* The loads: the one createNote ends with, and the view's Retry *)
Loads ==
    \/ RefreshNotes
    \/ ClearError
    \/ \E i \in Slots : LoadOk(i)
    \/ \E i \in Slots, msg \in AllMessages : LoadFail(i, msg)

NextRoundTrip == Environment \/ Loads \/ RoundTrip

(* The mount's loads have resolved and the server holds two notes *)
InitRoundTrip == Settled(Len(InitialNotes), DefaultPageSize, MaxRequests)

SpecRoundTrip == InitRoundTrip /\ [][NextRoundTrip]_vars

----------------------------------------------------------------------------
(* The batch delete of the view (App.tsx, handleDeleteSelected): one        *)
(* deleteNote call per selected note, all made in the same render, so that  *)
(* every call closes over the same notes; the removals are functional       *)
(* updates and compose.  One batch is outstanding at a time.                *)

MaxSelected == 2     \* notes selected for one batch delete

BatchNotes == MaxSelected + 1

(* The selections: the ids of cached notes in the order they were selected *)
Selections ==
    UNION { { sel \in [1..n -> Ids(notes)] :
                \A j, k \in 1..n : j # k => sel[j] # sel[k] } :
            n \in 1..MaxSelected }

(* deleteNote of each selected id up to its await: lines 153-158 of the     *)
(* hook, called by lines 130-131 of App.tsx                                 *)
DeleteSelected(sel) ==
    /\ sel # <<>>
    /\ inflight = <<>>
    /\ issued + Len(sel) <= budget
    /\ notes' = SelectSeq(notes, LAMBDA n : ~Member(sel, n.id))
    /\ error' = Null
    /\ inflight' = [k \in 1..Len(sel) |->
                      [Request("delete", filters, sel[k], <<>>, notes, FALSE)
                          EXCEPT !.alone = (Len(sel) = 1)]]
    /\ issued' = issued + Len(sel) /\ UNCHANGED <<budget, clientVars>>
    /\ last' = Step("deleteSelected", NoRequest)
    /\ UNCHANGED <<tags, filters, isLoading, currentPage, pageSize, now,
                   serverVars>>

Batch ==
    \/ \E sel \in Selections : DeleteSelected(sel)
    \/ \E i \in Slots : DeleteOk(i)
    \/ \E i \in Slots, msg \in AllMessages : DeleteFail(i, msg)

NextBatch == Environment \/ Batch

(* The mount's loads have resolved and the server holds the listed notes *)
InitBatch == Settled(BatchNotes, DefaultPageSize, MaxSelected)

SpecBatch == InitBatch /\ [][NextBatch]_vars

----------------------------------------------------------------------------
(* The note modal (components/NoteModal.tsx) and its handlers in App.tsx:   *)
(* opening it for a new note or for a listed one, cancelling, and saving.   *)
(* A save validates the form, calls createNote or updateNote of the hook    *)
(* and closes the modal after that call has resolved.  The promise of the   *)
(* call is settled when its request, and for a create the load that follows *)
(* it, has left the outstanding requests; the code after the await runs     *)
(* before the view handles another event.                                   *)

(* The form when Save is clicked: a title to trim, an empty, a blank and an *)
(* overlong one, with a content or none                                     *)
FormInputs ==
    [title : { Run(" ", 1) \o Run("c", 1), <<>>, Run(" ", 2),
               Run("c", TitleMax + 1) },
     content : { Text("x"), <<>> },
     tags : { <<>> }]

(* handleSaveNote has settled and handleSave has not yet run its finally *)
SaveSettled == isSaving /\ inflight = <<>>

(* handleCreateNote (App.tsx 96-99) and the effect of NoteModal (32-45) *)
HandleCreateNote ==
    /\ ~noteModalOpen
    /\ ~SaveSettled
    /\ editingNote' = <<>>
    /\ noteModalOpen' = TRUE
    /\ errors' = <<>>
    /\ UNCHANGED <<hookVars, inflight, now, serverVars, issued, budget, last,
                   callVars, isSaving, tagModalVars>>

(* handleOpenNote (App.tsx 91-94) and the effect of NoteModal (32-45) *)
HandleOpenNote(k) ==
    /\ ~noteModalOpen
    /\ ~SaveSettled
    /\ k \in 1..Len(notes)
    /\ editingNote' = << notes[k] >>
    /\ noteModalOpen' = TRUE
    /\ errors' = <<>>
    /\ UNCHANGED <<hookVars, inflight, now, serverVars, issued, budget, last,
                   callVars, isSaving, tagModalVars>>

(* handleCancelNote (App.tsx 111-114): the close button, Escape, the        *)
(* backdrop                                                                 *)
HandleCancelNote ==
    /\ noteModalOpen
    /\ ~SaveSettled
    /\ noteModalOpen' = FALSE
    /\ editingNote' = <<>>
    /\ UNCHANGED <<hookVars, inflight, now, serverVars, issued, budget, last,
                   callVars, isSaving, errors, tagModalVars>>

(* handleSave (NoteModal.tsx 68-83) up to its await, validateForm (49-66)   *)
(* and handleSaveNote (App.tsx 101-106) up to its await; the Save button is *)
(* disabled while isSaving                                                  *)
HandleSave(form) ==
    /\ noteModalOpen
    /\ ~isSaving
    /\ LET parsed == NoteInParse(form)
           noteData == [title |-> TrimText(form.title),
                        content |-> TrimText(form.content),
                        tags |-> form.tags]
       IN  IF ~parsed.ok
           THEN /\ errors' = parsed.issues
                /\ UNCHANGED <<hookVars, inflight, now, serverVars, issued,
                               budget, last, callVars, isSaving>>
           ELSE /\ errors' = <<>>
                /\ isSaving' = TRUE
                /\ IF editingNote # <<>>
                   THEN UpdateNoteCall(editingNote[1].id, noteData)
                   ELSE CreateNoteCall(noteData)
    /\ UNCHANGED <<noteModalOpen, editingNote, tagModalVars>>

(* The modal closed whether the call resolved or rejected *)
SaveSettlesAlwaysCloses ==
    /\ SaveSettled
    /\ noteModalOpen' = FALSE
    /\ editingNote' = <<>>
    /\ isSaving' = FALSE
    /\ UNCHANGED <<hookVars, inflight, now, serverVars, issued, budget, last,
                   callVars, errors, tagModalVars>>

(* After the await: handleSaveNote closes the modal when the call resolved  *)
(* (App.tsx 107-108) and is left by the exception when it rejected; then    *)
(* the catch and finally of handleSave (NoteModal.tsx 78-82)                *)
SaveSettles ==
    /\ SaveSettled
    /\ IF last.rejected
       THEN UNCHANGED <<noteModalOpen, editingNote>>
       ELSE /\ noteModalOpen' = FALSE
            /\ editingNote' = <<>>
    /\ isSaving' = FALSE
    /\ UNCHANGED <<hookVars, inflight, now, serverVars, issued, budget, last,
                   callVars, errors, tagModalVars>>

NoteModalSteps ==
    \/ HandleCreateNote
    \/ \E k \in 1..Len(notes) : HandleOpenNote(k)
    \/ HandleCancelNote
    \/ \E form \in FormInputs : HandleSave(form)
    \/ SaveSettles

(* What the hook does when the requests of a save resolve *)
SaveResolutions ==
    \/ \E i \in Slots : CreateOk(i)
    \/ \E i \in Slots, msg \in AllMessages : CreateFail(i, msg)
    \/ \E i \in Slots : UpdateOk(i)
    \/ \E i \in Slots, msg \in AllMessages : UpdateFail(i, msg)
    \/ \E i \in Slots : LoadOk(i)
    \/ \E i \in Slots, msg \in AllMessages : LoadFail(i, msg)

NextNoteModal == Environment \/ SaveResolutions \/ NoteModalSteps

(* The mount's loads have resolved and the server holds two notes *)
InitNoteModal == Settled(Len(InitialNotes), DefaultPageSize, MaxOverlap)

SpecNoteModal == InitNoteModal /\ [][NextNoteModal]_vars

----------------------------------------------------------------------------
(* Rollback of a failed mutation *)

(* C1: when createNote runs with no other request outstanding from its     *)
(* call to its rejection and the create request fails, the cached list is  *)
(* again the list the call started from (same entries, same order, same    *)
(* length) and error holds the failure's message.                          *)
C1_CreateRollback ==
    (last.op = "createFail" /\ last.req.alone) =>
        /\ notes = last.req.prev
        /\ Len(notes) = Len(last.req.prev)
        /\ error # Null
        /\ error = last.req.msg

C1_Witness ==
    /\ last.op = "createFail"
    /\ last.req.alone
    /\ Len(notes) = 2
    /\ error # Null

(* C2: when an update request fails, the cached list is the list the call  *)
(* closed over; the entry with the call's id has its earlier title,        *)
(* content and tags, and error holds the failure's message.                *)
C2_UpdateRollback ==
    last.op = "updateFail" =>
        /\ notes = last.req.prev
        /\ \A k \in 1..Len(last.req.prev) :
              last.req.prev[k].id = last.req.id =>
                /\ k <= Len(notes)
                /\ notes[k].id = last.req.id
                /\ notes[k].title = last.req.prev[k].title
                /\ notes[k].content = last.req.prev[k].content
                /\ notes[k].tags = last.req.prev[k].tags
        /\ error # Null
        /\ error = last.req.msg

C2_Witness ==
    /\ last.op = "updateFail"
    /\ \E k \in 1..Len(notes) :
          /\ notes[k].id = last.req.id
          /\ notes[k].title # last.req.dto.title
          /\ notes[k].tags # last.req.dto.tags
    /\ error # Null

(* C3: when a delete request fails, the cached list is the list the call   *)
(* closed over: the note is back at its position, the length is what it    *)
(* was, and error holds the failure's message.                             *)
C3_DeleteRollback ==
    last.op = "deleteFail" =>
        /\ notes = last.req.prev
        /\ Len(notes) = Len(last.req.prev)
        /\ error # Null
        /\ error = last.req.msg

C3_Witness ==
    /\ last.op = "deleteFail"
    /\ Len(notes) = 2
    /\ notes[2].id = last.req.id
    /\ error # Null

----------------------------------------------------------------------------
(* Reconciliation *)

(* An entry as the server returned it and still holds it: a server id,     *)
(* server timestamps, and a note the server has not deleted.               *)
ServerEntry(n) ==
    /\ n.id < Epoch
    /\ n.created_at = "srv"
    /\ n.updated_at = "srv"
    /\ HasId(db, n.id)

(* C4: whenever no request is in flight, every entry of the cached list is *)
(* a server-returned entry: no temporary note, no unconfirmed optimistic   *)
(* value, and no note whose delete the server confirmed.                   *)
C4_ReconciledWhenIdle ==
    inflight = <<>> => \A k \in 1..Len(notes) : ServerEntry(notes[k])

----------------------------------------------------------------------------
(* Success of a mutation *)

(* post is pre with every entry of the id dropped, the others in order *)
Without(pre, post, id) ==
    LET kept == { k \in 1..Len(pre) : pre[k].id # id }
        Rank(k) == Cardinality({ j \in kept : j <= k })
    IN  /\ Len(post) = Cardinality(kept)
        /\ \A k \in kept : post[Rank(k)] = pre[k]

(* post is pre with every entry of the id replaced, in place, by n *)
ReplacedInPlace(pre, post, id, n) ==
    /\ Len(post) = Len(pre)
    /\ \A k \in 1..Len(pre) : post[k] = IF pre[k].id = id THEN n ELSE pre[k]

Newest(reqs) == reqs[Len(reqs)]

(* The cached list while a create that runs alone is outstanding *)
TemporaryFirst(r) ==
    /\ Len(notes) = Len(r.prev) + 1
    /\ notes[1].id = r.id
    /\ notes[1].id >= Epoch
    /\ notes[1].title = r.dto.title
    /\ notes[1].content = r.dto.content
    /\ notes[1].tags = r.dto.tags
    /\ SubSeq(notes, 2, Len(notes)) = r.prev

AloneCreatesShowTemporary ==
    \A i \in 1..Len(inflight) :
        (inflight[i].kind = "create" /\ inflight[i].alone) => TemporaryFirst(inflight[i])

(* C5: createNote puts the temporary note before the list it found, and    *)
(* the list stays so while the create is outstanding alone; when the       *)
(* request succeeds the temporary entry is replaced in place by the note   *)
(* the server returned (server id and timestamps) and a load is issued;    *)
(* when that load succeeds the cached list is the load's response.         *)
C5_CreateSuccess ==
    [][ /\ \A dto \in NoteInputs : CreateNote(dto) =>
              /\ Len(notes') = Len(notes) + 1
              /\ SubSeq(notes', 2, Len(notes')) = notes
              /\ notes'[1].id = Epoch + now
              /\ notes'[1].title = dto.title
              /\ notes'[1].content = dto.content
              /\ notes'[1].tags = dto.tags
              /\ Len(inflight') = Len(inflight) + 1
              /\ Newest(inflight').kind = "create"
              /\ Newest(inflight').phase = "sent"
        /\ AloneCreatesShowTemporary
        /\ AloneCreatesShowTemporary'
        /\ \A i \in Slots : CreateOk(i) =>
              /\ ReplacedInPlace(notes, notes', inflight[i].id, inflight[i].resp[1])
              /\ inflight[i].resp[1].id < Epoch
              /\ inflight[i].resp[1].created_at = "srv"
              /\ inflight[i].resp[1].updated_at = "srv"
              /\ Len(inflight') = Len(inflight)
              /\ Newest(inflight').kind = "load"
              /\ Newest(inflight').phase = "sent"
              /\ Newest(inflight').chained
              /\ isLoading'
        /\ \A i \in Slots : (LoadOk(i) /\ inflight[i].chained) =>
              notes' = inflight[i].resp
      ]_vars

C5_Witness ==
    /\ last.op = "loadOk"
    /\ last.req.chained
    /\ inflight = <<>>
    /\ notes = last.req.resp
    /\ Len(notes) = 3
    /\ notes[3].id = Len(InitialNotes) + 1
    /\ notes[3].created_at = "srv"

(* C6: updateNote gives the cached entry of that id the new title, content *)
(* and tags at once, keeping its id and position; when the request         *)
(* succeeds that entry is the server's response; the entries of other ids, *)
(* the length and the order are unchanged by both steps, and no load is    *)
(* issued.                                                                 *)
C6_UpdateSuccess ==
    [][ /\ \A id \in IdInputs, dto \in NoteInputs : UpdateNote(id, dto) =>
              /\ Len(notes') = Len(notes)
              /\ \A k \in 1..Len(notes) :
                    /\ notes'[k].id = notes[k].id
                    /\ notes[k].id = id =>
                          /\ notes'[k].title = dto.title
                          /\ notes'[k].content = dto.content
                          /\ notes'[k].tags = dto.tags
                    /\ notes[k].id # id => notes'[k] = notes[k]
              /\ Len(inflight') = Len(inflight) + 1
              /\ Newest(inflight').kind = "update"
              /\ isLoading' = isLoading
        /\ \A i \in Slots : UpdateOk(i) =>
              /\ ReplacedInPlace(notes, notes', inflight[i].id, inflight[i].resp[1])
              /\ inflight[i].resp[1].id = inflight[i].id
              /\ Len(inflight') = Len(inflight) - 1
              /\ \A j \in 1..Len(inflight') :
                    \E m \in 1..Len(inflight) : inflight[m] = inflight'[j]
              /\ isLoading' = isLoading
      ]_vars

C6_Witness ==
    /\ last.op = "updateOk"
    /\ Len(notes) = 2
    /\ notes[1] = InitialNotes[1]
    /\ notes[2].id = last.req.id
    /\ notes[2] = last.req.resp[1]
    /\ notes[2].title = last.req.dto.title
    /\ notes[2].title # InitialNotes[2].title

(* C7: deleteNote drops the entry of that id from the cached list before   *)
(* the response arrives, every other entry keeping its value and relative  *)
(* order; when the request succeeds nothing changes and no request is      *)
(* issued, so after a delete that ran alone the cached list is the list    *)
(* the call found without that entry.                                      *)
C7_DeleteSuccess ==
    [][ /\ \A id \in IdInputs : DeleteNote(id) =>
              /\ Without(notes, notes', id)
              /\ Newest(inflight').kind = "delete"
              /\ Newest(inflight').phase = "sent"
        /\ \A i \in Slots : DeleteOk(i) =>
              /\ notes' = notes
              /\ isLoading' = isLoading
              /\ Len(inflight') = Len(inflight) - 1
              /\ \A j \in 1..Len(inflight') :
                    \E m \in 1..Len(inflight) : inflight[m] = inflight'[j]
        /\ (last'.op = "deleteOk" /\ last'.req.alone) =>
              Without(last'.req.prev, notes', last'.req.id)
      ]_vars

C7_Witness ==
    /\ last.op = "deleteOk"
    /\ last.req.alone
    /\ Len(last.req.prev) = 2
    /\ last.req.id = 1
    /\ notes = <<InitialNotes[2]>>
    /\ inflight = <<>>

----------------------------------------------------------------------------
(* Loads, filters and the page *)

(* C8: a failed load leaves the cached list, the tags, the filters, the    *)
(* page and the page size as they were, sets error to the failure's        *)
(* message and isLoading to false, and refreshNotes does not reject; after *)
(* a load that ran alone the list is the list the load started from.       *)
C8_LoadFailureKeepsData ==
    [][ \A i \in Slots, msg \in AllMessages : LoadFail(i, msg) =>
            /\ notes' = notes
            /\ tags' = tags
            /\ filters' = filters
            /\ currentPage' = currentPage
            /\ pageSize' = pageSize
            /\ error' = msg
            /\ error' # Null
            /\ isLoading' = FALSE
            /\ ~last'.rejected
            /\ inflight[i].alone => notes' = inflight[i].prev
      ]_vars

C8_Witness ==
    /\ last.op = "loadFail"
    /\ Len(notes) = 2
    /\ tags = InitialTags
    /\ filters # DefaultFilters
    /\ currentPage = 2
    /\ error = last.req.msg
    /\ ~isLoading

(* C9: a successful load replaces the cached list with the response and    *)
(* leaves the page, the page size and the filters as they were, also when  *)
(* the page is then beyond the recomputed totalPages; the displayed slice  *)
(* is then empty.                                                          *)
C9_LoadKeepsPage ==
    [][ \A i \in Slots : LoadOk(i) =>
            /\ notes' = inflight[i].resp
            /\ currentPage' = currentPage
            /\ pageSize' = pageSize
            /\ filters' = filters
            /\ currentPage' > totalPages' => paginatedNotes' = <<>>
      ]_vars

C9_Witness ==
    /\ last.op = "loadOk"
    /\ last.page = 2
    /\ currentPage = 2
    /\ notes = last.req.resp
    /\ Len(notes) = 1
    /\ totalPages = 1
    /\ paginatedNotes = <<>>

(* C10: setFilters(F) leaves filters = F and currentPage = 1, whatever the *)
(* page was.                                                               *)
C10_FilterChangeResetsPage ==
    [][ \A f \in FilterInputs : SetFilters(f) =>
            /\ filters' = f
            /\ currentPage' = 1
      ]_vars

C10_Witness ==
    /\ last.op = "setFilters"
    /\ last.page = 2
    /\ currentPage = 1
    /\ filters # DefaultFilters

(* C11: setFilters(F) issues, by itself, one notes read whose filters are   *)
(* exactly F (bodyText, includeTitle and tags); the view does not call      *)
(* refreshNotes.                                                            *)
C11_FilterChangeLoads ==
    [][ \A f \in FilterInputs : SetFilters(f) =>
            /\ Len(inflight') = Len(inflight) + 1
            /\ \A j \in 1..Len(inflight) : inflight'[j].kind = inflight[j].kind
            /\ Newest(inflight').kind = "load"
            /\ Newest(inflight').phase = "sent"
            /\ Newest(inflight').filters.bodyText = f.bodyText
            /\ Newest(inflight').filters.includeTitle = f.includeTitle
            /\ Newest(inflight').filters.tags = f.tags
            /\ isLoading'
            /\ last'.op = "setFilters"
      ]_vars

C11_Witness ==
    /\ last.op = "setFilters"
    /\ filters # DefaultFilters
    /\ inflight # <<>>
    /\ Newest(inflight).kind = "load"
    /\ Newest(inflight).phase = "sent"
    /\ Newest(inflight).filters = filters
    /\ notes # <<>>

(* C12: setPageSize(n) leaves pageSize = n and currentPage = 1, whatever    *)
(* the page was, and totalPages is the page count of the cached list for    *)
(* the new size.                                                            *)
C12_PageSizeChangeResetsPage ==
    [][ \A size \in PageSizes : SetPageSize(size) =>
            /\ pageSize' = size
            /\ currentPage' = 1
            /\ notes' = notes
            /\ totalPages' = Max(1, CeilDiv(Len(notes), size))
      ]_vars

C12_Witness ==
    /\ last.op = "setPageSize"
    /\ last.page = 2
    /\ currentPage = 1
    /\ pageSize = 1
    /\ Len(notes) = 2
    /\ totalPages = 2

----------------------------------------------------------------------------
(* The pagination cursor *)

(* C13: setCurrentPage(p) leaves currentPage = min(max(p, 1), totalPages),  *)
(* so after setCurrentPage, nextPage or prevPage the page is within         *)
(* 1..totalPages.                                                           *)
C13_PageClamp ==
    [][ /\ \A p \in 0..MaxPageInput : SetCurrentPage(p) =>
              currentPage' = Min(Max(p, 1), totalPages)
        /\ (NextPage \/ PrevPage \/ \E p \in 0..MaxPageInput : SetCurrentPage(p)) =>
              (1 <= currentPage' /\ currentPage' <= totalPages')
      ]_vars

RECURSIVE PagesFrom(_, _, _, _)
PagesFrom(ns, size, p, lastPage) ==
    IF p > lastPage THEN <<>>
    ELSE paginatedNotesOf(ns, p, size) \o PagesFrom(ns, size, p + 1, lastPage)

----------------------------------------------------------------------------
(* Errors *)

MutationKinds == {"create", "update", "delete"}

(* C16: a createNote, updateNote or deleteNote call rejects to its caller   *)
(* exactly when its own mutation request failed, and then error holds the   *)
(* message of the error it rejects with; a failure of the load that         *)
(* follows a successful create does not reject the createNote call.         *)
C16_FailurePropagation ==
    /\ last.rejected <=>
          /\ last.req.kind \in MutationKinds
          /\ last.req.phase # "ok"
    /\ last.rejected <=> last.op \in {"createFail", "updateFail", "deleteFail"}
    /\ last.rejected => (error = last.req.msg /\ error # Null)
    /\ last.op \in {"createOk", "updateOk", "deleteOk"} =>
          (last.req.phase = "ok" /\ ~last.rejected)
    /\ (last.op \in {"loadOk", "loadFail"} /\ last.req.chained) => ~last.rejected

C16_Witness ==
    /\ last.op = "loadFail"
    /\ last.req.chained
    /\ ~last.rejected
    /\ error = last.req.msg
    /\ error # Null
    /\ HasId(notes, Len(InitialNotes) + 1)
    /\ inflight = <<>>

(* C17: error is one value, null or the message of the latest failure;      *)
(* refreshNotes, createNote, updateNote and deleteNote set it to null       *)
(* before their request is issued, so it is null while an operation that    *)
(* runs alone is outstanding and after that operation succeeds; clearError  *)
(* sets it to null and changes nothing else.                                *)
C17_SingleLatestError ==
    [][ /\ error \in AllMessages \cup {Null}
        /\ (\/ RefreshNotes
            \/ \E dto \in NoteInputs : CreateNote(dto)
            \/ \E id \in IdInputs, dto \in NoteInputs : UpdateNote(id, dto)
            \/ \E id \in IdInputs : DeleteNote(id)) =>
              /\ error' = Null
              /\ Len(inflight') = Len(inflight) + 1
              /\ Newest(inflight').phase = "sent"
        /\ \A i \in Slots : inflight[i].alone => error = Null
        /\ \A i \in Slots :
              ((LoadOk(i) \/ UpdateOk(i) \/ DeleteOk(i)) /\ inflight[i].alone) =>
                  error' = Null
        /\ \A i \in Slots : CreateOk(i) => error' = Null
        /\ \A i \in Slots, msg \in AllMessages :
              (LoadFail(i, msg) \/ TagsFail(i, msg) \/ CreateFail(i, msg)
                 \/ UpdateFail(i, msg) \/ DeleteFail(i, msg)) => error' = msg
        /\ ClearError =>
              /\ error' = Null
              /\ UNCHANGED <<notes, tags, filters, isLoading, currentPage,
                             pageSize, inflight, serverVars>>
      ]_vars

(* An update that ran alone and succeeded after refreshTags had failed *)
C17_Witness ==
    /\ last.op = "updateOk"
    /\ last.req.alone
    /\ tags = <<>>
    /\ inflight = <<>>
    /\ error = Null

----------------------------------------------------------------------------
(* Overlapping loads *)

(* C18: starting a load cancels no outstanding load, and the response of a  *)
(* load whose filters are no longer the current ones is applied when it     *)
(* arrives, in whatever order the responses arrive: the list is then that   *)
(* response while filters stay the newer value.                             *)
C18_StaleResponseApplied ==
    [][ /\ \A f \in FilterInputs : SetFilters(f) =>
              \A j \in 1..Len(inflight) :
                  /\ inflight'[j].kind = inflight[j].kind
                  /\ inflight'[j].filters = inflight[j].filters
                  /\ inflight'[j].phase = inflight[j].phase
        /\ \A i \in Slots : (LoadOk(i) /\ inflight[i].filters # filters) =>
              /\ notes' = inflight[i].resp
              /\ filters' = filters
              /\ filters' # inflight[i].filters
      ]_vars

(* The load for the current filters resolved first, the mount's load last:  *)
(* nothing is in flight and the list is the answer to the older filters.    *)
C18_Witness ==
    /\ inflight = <<>>
    /\ last.op = "loadOk"
    /\ last.req.filters = DefaultFilters
    /\ filters # DefaultFilters
    /\ ~isLoading
    /\ error = Null
    /\ notes = ServerGetNotes(db, DefaultFilters)
    /\ notes # ServerGetNotes(db, filters)

----------------------------------------------------------------------------
(* The API client: local validation and error kinds *)

C19_TextFails(t, limit) ==
    TextLength(TrimText(t)) = 0 \/ TextLength(TrimText(t)) > limit

C19_NameFails(name, limit) ==
    Len(Trim(name)) = 0 \/ Len(Trim(name)) > limit

C19_RejectedLocally(call, message) ==
    /\ outcome'.call = call
    /\ outcome'.threw
    /\ outcome'.error.name = "APIError"
    /\ outcome'.error.message = message
    /\ outcome'.error.detail # <<>>
    /\ ~outcome'.sent
    /\ wire' = <<>>

C20_KindOf(err) ==
    IF err.name # "APIError" THEN "other"
    ELSE IF err.message = ConnectionMessage THEN "connection"
    ELSE IF err.message \in {"Invalid note data", "Invalid tag data"} THEN "input"
    ELSE IF err.message = "API response validation failed"
    THEN IF ResponseOk(err.status) THEN "schema" ELSE "other"
    ELSE IF ~ResponseOk(err.status) THEN "http" ELSE "other"

(* C20: every failure the API client raises is exactly one of connection    *)
(* error, HTTP error (non-2xx, carrying the status code), schema-validation *)
(* error (2xx body not matching the schema) or input-validation error, and  *)
(* the kind read off the raised error value is the kind of what went wrong. *)
C20_ErrorKindsDistinguishable ==
    outcome.threw =>
        LET kind == C20_KindOf(outcome.error)
        IN  /\ kind \in {"connection", "http", "schema", "input"}
            /\ (kind = "connection") <=> (outcome.cause = "transport")
            /\ (kind = "http") <=> (outcome.cause = "http")
            /\ (kind = "schema") <=> (outcome.cause = "schema")
            /\ (kind = "input") <=> (outcome.cause = "input")
            /\ kind = "http" => outcome.error.status \in Statuses \ {200, 201}

(* C21: in each of the six API calls a transport-level failure of the       *)
(* request (fetch rejecting) surfaces as the connection error, an APIError  *)
(* with the message 'Connection error (is the server running?)', never as   *)
(* the raw exception of the transport.                                      *)
C21_ConnectionErrorNormalized ==
    outcome.cause = "transport" =>
        /\ outcome.threw
        /\ outcome.call \in {"getNotes", "createNote", "updateNote",
                             "deleteNote", "getTags", "createTag"}
        /\ outcome.error.name = "APIError"
        /\ outcome.error.message = ConnectionMessage
        /\ outcome.error.status = Undefined

(* The names of tgs from index i on, trimmed and lowercased, without the   *)
(* empty ones                                                               *)
C22_Cleaned(tgs) ==
    LET names == [i \in 1..Len(tgs) |-> ToLower(Trim(tgs[i]))]
    IN  SelectSeq(names, LAMBDA name : name # <<>>)

C22_FirstAt(names, name) ==
    CHOOSE i \in 1..Len(names) :
        names[i] = name /\ \A j \in 1..(i - 1) : names[j] # name

C22_Uppercase == {"A", "B", "C", "K", "O", "R", "S", "T", "W", "X", "Y"}

(* C22: normalizing a list of tag names yields a list with no empty name,   *)
(* no duplicate and only trimmed lowercase names, holding every non-empty   *)
(* normalized name of the list once, in first-seen order; normalizing the   *)
(* result returns it unchanged; [" Work ", "work", "WORK"] gives ["work"].  *)
C22_TagNormalization ==
    LET cleaned == C22_Cleaned(parseIn)
    IN  /\ \A i \in 1..Len(parseOut) :
              /\ parseOut[i] # <<>>
              /\ parseOut[i][1] # " "
              /\ parseOut[i][Len(parseOut[i])] # " "
              /\ \A k \in 1..Len(parseOut[i]) : parseOut[i][k] \notin C22_Uppercase
        /\ \A i, j \in 1..Len(parseOut) : i # j => parseOut[i] # parseOut[j]
        /\ { parseOut[i] : i \in 1..Len(parseOut) }
              = { cleaned[i] : i \in 1..Len(cleaned) }
        /\ \A i, j \in 1..Len(parseOut) :
              i < j => C22_FirstAt(cleaned, parseOut[i]) < C22_FirstAt(cleaned, parseOut[j])
        /\ NormalizeTags(parseOut) = parseOut
        /\ parseIn = << <<" ", "W", "o", "r", "k", " ">>, <<"w", "o", "r", "k">>,
                        <<"W", "O", "R", "K">> >>
              => parseOut = << <<"w", "o", "r", "k">> >>

(* [" Work ", "work", "WORK"] was parsed and gave ["work"] *)
C22_Witness ==
    /\ parseIn = << <<" ", "W", "o", "r", "k", " ">>, <<"w", "o", "r", "k">>,
                    <<"W", "O", "R", "K">> >>
    /\ parseOut = << <<"w", "o", "r", "k">> >>

----------------------------------------------------------------------------
(* Create round trip *)

C23_Variants == << <<"A">>, <<"a", " ">>, <<" ", "A">> >>

C23_Single == << <<"a">> >>

(* The entries of the cache that came from the server carry the tag list    *)
(* the server stores for that note                                          *)
C23_CacheAsStored(cache, store) ==
    \A k \in 1..Len(cache), j \in 1..Len(store) :
        cache[k].id = store[j].id => cache[k].tags = store[j].tags

(* C23: creating a note whose tags are case and whitespace variants of one  *)
(* name (["A", "a ", " A"]) sends, stores and returns a tag list with the   *)
(* single normalized entry (["a"]), and once the create has resolved the    *)
(* cached entry for that note carries exactly that list.                    *)
C23_CreateRoundTrip ==
    [][ /\ \A noteData \in RoundTripInputs :
              (CreateNoteValidated(noteData) /\ NoteInParse(noteData).ok) =>
                  /\ Len(wire') = 1
                  /\ wire'[1].method = "POST"
                  /\ wire'[1].body[1].tags = NormalizeTags(noteData.tags)
                  /\ Newest(inflight').dto = wire'[1].body[1]
                  /\ noteData.tags = C23_Variants => wire'[1].body[1].tags = C23_Single
        /\ \A i \in Slots :
              (ServerHandle(i) /\ inflight[i].kind = "create") =>
                  /\ Len(db') = Len(db) + 1
                  /\ db'[Len(db')].tags = inflight[i].dto.tags
                  /\ inflight'[i].phase = "ok"
                  /\ inflight'[i].resp = << db'[Len(db')] >>
                  /\ inflight[i].dto.tags = C23_Single =>
                        inflight'[i].resp[1].tags = C23_Single
        /\ \A i \in Slots : CreateOk(i) =>
              /\ C23_CacheAsStored(notes', db)
              /\ HasId(notes, inflight[i].id) =>
                    \E k \in 1..Len(notes') :
                        /\ notes'[k].id = inflight[i].resp[1].id
                        /\ notes'[k].tags = inflight[i].resp[1].tags
        /\ \A i \in Slots :
              (inflight[i].chained /\ (LoadOk(i) \/ \E msg \in AllMessages : LoadFail(i, msg)))
                  => C23_CacheAsStored(notes', db)
        /\ \A i \in Slots : (LoadOk(i) /\ inflight[i].chained /\ inflight[i].alone) =>
              notes' = db
      ]_vars

(* The create of ["A", "a ", " A"] has resolved: what was sent, the stored  *)
(* note and the cached entry all carry ["a"]                                *)
C23_Witness ==
    /\ last.op = "loadOk"
    /\ last.req.chained
    /\ inflight = <<>>
    /\ wire # <<>>
    /\ wire[1].body[1].tags = C23_Single
    /\ Len(db) = 3
    /\ db[3].tags = C23_Single
    /\ \E k \in 1..Len(notes) : notes[k].id = db[3].id /\ notes[k].tags = C23_Single

----------------------------------------------------------------------------
(* Tag creation *)

(* C24: POST /tags/ is an idempotent create-or-get: posting a name whose    *)
(* normalized form already names a tag succeeds and returns the existing    *)
(* tag (same id) without adding a tag.                                      *)
C24_CreateOrGet ==
    [][ \A tagData \in TagPostInputs :
          \A k \in 1..Len(dbTags) :
              (PostTag(tagData) /\ dbTags[k].name = ToLower(Trim(tagData.name))) =>
                  /\ ~outcome'.threw
                  /\ outcome'.value = << dbTags[k] >>
                  /\ dbTags' = dbTags
      ]_vars

----------------------------------------------------------------------------
(* Search query construction *)

(* The values sent under a key, in the order they are sent *)
C25_Sent(params, key) ==
    LET chosen == SelectSeq(params, LAMBDA p : p[1] = key)
    IN  [i \in 1..Len(chosen) |-> chosen[i][2]]

(* C25: for every filter state getNotes sends body_text iff bodyText is     *)
(* non-empty; sends title_text iff includeTitle is true and bodyText is     *)
(* non-empty, and then title_text equals body_text; sends one tags          *)
(* parameter per selected tag, in order, and none when no tag is selected.  *)
C25_SearchQuery ==
    [][ \A f \in QueryFilterInputs : ApiGetNotes(f) =>
          /\ Len(wire') = 1
          /\ wire'[1].method = "GET"
          /\ wire'[1].path = "/notes/"
          /\ LET params == wire'[1].query
             IN  /\ C25_Sent(params, "body_text")
                      = IF f.bodyText # <<>> THEN << f.bodyText >> ELSE <<>>
                 /\ C25_Sent(params, "title_text")
                      = IF f.includeTitle /\ f.bodyText # <<>>
                        THEN C25_Sent(params, "body_text") ELSE <<>>
                 /\ C25_Sent(params, "tags") = f.tags
      ]_vars

(* A search for "X" with the title included and two tags selected is on the *)
(* wire: body_text, title_text and the two tags in their order              *)
C25_Witness ==
    /\ outcome.call = "getNotes"
    /\ wire # <<>>
    /\ wire[1].path = "/notes/"
    /\ C25_Sent(wire[1].query, "body_text") = << <<"X">> >>
    /\ C25_Sent(wire[1].query, "title_text") = << <<"X">> >>
    /\ C25_Sent(wire[1].query, "tags") = << <<"t">>, <<"s">> >>

----------------------------------------------------------------------------
(* Batch delete *)

(* C26: when the deletes of a batch have all resolved, the cached list      *)
(* holds every note whose delete failed and no note whose delete the        *)
(* server carried out.  Here a note leaves the server only by a delete that *)
(* succeeded, and a note the server still holds was either not selected or  *)
(* its delete failed.                                                       *)
C26_BatchDeleteSettles ==
    (inflight = <<>> /\ issued > 0) =>
        /\ \A k \in 1..Len(notes) : HasId(db, notes[k].id)
        /\ \A k \in 1..Len(db) : HasId(notes, db[k].id)

----------------------------------------------------------------------------
(* The loading flag *)

(* The notes loads in flight *)
C27_Loads(reqs) == { i \in 1..Len(reqs) : reqs[i].kind = "load" }

(* C27 as stated: in every reachable state isLoading is true if and only if *)
(* at least one notes load is in flight, overlapping loads included.        *)
C27_LoadingIffInFlight ==
    isLoading <=> (C27_Loads(inflight) # {})

(* C27: isLoading becomes true at every step that starts a notes load,      *)
(* becomes false at every step at which a notes load succeeds or fails, and *)
(* changes at no other step; it is true only while a notes load is in       *)
(* flight, and while at most one load has been in flight since the hook was *)
(* last idle it is true exactly when that load is in flight.                *)
C27_LoadingStateMachine ==
    /\ [](isLoading => C27_Loads(inflight) # {})
    /\ [][ LET before == Cardinality(C27_Loads(inflight))
               after == Cardinality(C27_Loads(inflight'))
           IN  /\ after > before => isLoading'
               /\ after < before => ~isLoading'
               /\ after = before => isLoading' = isLoading
               /\ (before = 0 /\ ~isLoading) => (isLoading' <=> after = 1)
               /\ (before = 1 /\ isLoading /\ after <= 1) =>
                      (isLoading' <=> after = 1)
         ]_vars

(* The first of two overlapping loads has resolved: the flag is down and    *)
(* the second load is still in flight                                       *)
C27_Witness ==
    /\ ~isLoading
    /\ C27_Loads(inflight) # {}
    /\ last.op \in {"loadOk", "loadFail"}

----------------------------------------------------------------------------
(* Ids of the cached list *)

(* C28: in every reachable state the ids of the cached list are pairwise    *)
(* distinct: a temporary id differs from every id already in the cache,     *)
(* the temporary id of another create still in flight included.             *)
C28_UniqueIds ==
    \A j, k \in 1..Len(notes) : j # k => notes[j].id # notes[k].id

----------------------------------------------------------------------------
(* The create option of the tag modal *)

(* C29: the create option is offered exactly when the typed text is         *)
(* non-empty after trimming and, trimmed and compared without regard to     *)
(* case, is the name of no available tag.                                   *)
C29_CreateOffered ==
    canCreateNew <=>
        /\ Trim(filterText) # <<>>
        /\ \A k \in 1..Len(tags) : ToLower(tags[k].name) # ToLower(Trim(filterText))

----------------------------------------------------------------------------
(* Saving from the note modal *)

(* The form fails validation: its title or its content is empty once        *)
(* trimmed, or longer than the schema allows                                *)
C30_Invalid(form) ==
    \/ C19_TextFails(form.title, TitleMax)
    \/ C19_TextFails(form.content, ContentMax)

(* The call of the hook a save made has resolved: the update was confirmed, *)
(* or the create was confirmed and the load after it has ended              *)
C30_CallResolved ==
    /\ isSaving
    /\ inflight = <<>>
    /\ \/ last.op = "updateOk"
       \/ last.op \in {"loadOk", "loadFail"} /\ last.req.chained

(* The call of the hook a save made has rejected *)
C30_CallRejected ==
    /\ isSaving
    /\ inflight = <<>>
    /\ last.op \in {"createFail", "updateFail"}

(* C30: a save calls the hook only when the form passes validation: with an *)
(* invalid form no request is issued, the cached list is untouched and the  *)
(* modal stays as it is.  A step closes the modal or changes editingNote    *)
(* only if it is a cancel, an open, or the end of a save whose createNote   *)
(* or updateNote call resolved; when that call rejected, the save ends with *)
(* the modal open as before and editingNote unchanged.                      *)
C30_SaveClosesOnSuccess ==
    [][ /\ \A form \in FormInputs :
              (HandleSave(form) /\ C30_Invalid(form)) =>
                  /\ inflight' = inflight
                  /\ notes' = notes
                  /\ issued' = issued
                  /\ ~isSaving'
                  /\ noteModalOpen' = noteModalOpen
                  /\ editingNote' = editingNote
        /\ \A form \in FormInputs :
              (HandleSave(form) /\ ~C30_Invalid(form)) =>
                  /\ isSaving'
                  /\ Len(inflight') = Len(inflight) + 1
                  /\ inflight'[Len(inflight')].kind
                        = IF editingNote = <<>> THEN "create" ELSE "update"
                  /\ noteModalOpen' /\ editingNote' = editingNote
        /\ (noteModalOpen /\ ~noteModalOpen') =>
              (C30_CallResolved \/ HandleCancelNote)
        /\ (editingNote' # editingNote) =>
              \/ C30_CallResolved
              \/ ~noteModalOpen /\ noteModalOpen'
              \/ noteModalOpen /\ ~noteModalOpen' /\ editingNote' = <<>>
        /\ (C30_CallResolved /\ ~isSaving') =>
              ~noteModalOpen' /\ editingNote' = <<>>
        /\ (C30_CallRejected /\ ~isSaving') =>
              noteModalOpen' = noteModalOpen /\ editingNote' = editingNote
      ]_vars

(* An update made from the modal was rejected and the save has ended: the   *)
(* modal is open on the same note                                           *)
C30_Witness ==
    /\ noteModalOpen
    /\ editingNote # <<>>
    /\ ~isSaving
    /\ last.op = "updateFail"
    /\ error # Null

====
